---- MODULE Spec2Model ----
(***************************************************************************)
(* A model of the PDF form auto-fill pipeline: the region filter, the      *)
(* batch classification orchestrator (AcroForm, static and direct paths),  *)
(* the fill-value join and the pattern registry.                           *)
(*                                                                         *)
(* Strings are sequences of one-character atoms, so that substring tests,  *)
(* split('.') and strip() are computed as the code computes them.  Schema  *)
(* keys and CDM values are written with one atom per run of non-blank      *)
(* characters ("account", ".", "number"); the blank atom is " ".           *)
(***************************************************************************)
EXTENDS Integers, Sequences, FiniteSets, TLC

\* the orchestration paths: the document, the loop positions, the page's
\* classifier answers (outcomes) and batches as dispatched, and the Mapping
VARIABLES mode, doc, chunk_size, pc, page_num, filtered_fields, chunk_idx,
          mappings, outcomes, batches, all_mappings

\* the fill-value join: a Mapping, the CDM data and the three results
VARIABLES field_to_cdm, cdm, filled_data, fill_mapping, fetched

\* the pattern registry and the last call of infer_cdm_key
VARIABLES FIELD_PATTERNS, num_adds, field_name, inferred, repeated

\* filter_noise_fields on its own: the list given, the list returned, and
\* what a second application returns
VARIABLES region_list, filtered, refiltered

\* a whole run: whether the document can be read, whether the filled
\* document has been written, and what the run returned
VARIABLES pdf_ok, output_written, run_result

\* fill_pdf_with_values: the fields given, the loop's position, what became
\* of each field so far, and the three counters
VARIABLES render_fields, render_idx, render_log, filled_count, skipped_count,
          failed_count

\* resolveLabel: the region, the page's text runs, the radius and the result
VARIABLES region, text_runs, search_radius, label

\* build_cdm_from_record: the record's items in order, the custom mapping,
\* the CDM returned and the field names given to infer_cdm_key
VARIABLES record, field_mapping, record_cdm, inferred_names

\* the null-like value the classifier gives in the runs that try one
VARIABLES null_like

orchVars == <<mode, doc, chunk_size, pc, page_num, filtered_fields, chunk_idx,
              mappings, outcomes, batches, all_mappings>>

fillVars == <<field_to_cdm, cdm, filled_data, fill_mapping, fetched>>

regVars == <<FIELD_PATTERNS, num_adds, field_name, inferred, repeated>>

filterVars == <<region_list, filtered, refiltered>>

runVars == <<pdf_ok, output_written, run_result>>

renderVars == <<render_fields, render_idx, render_log, filled_count, skipped_count,
                failed_count>>

labelVars == <<region, text_runs, search_radius, label>>

recordVars == <<record, field_mapping, record_cdm, inferred_names>>

auxVars == <<labelVars, recordVars, null_like>>

restVars == <<filterVars, runVars, renderVars, auxVars>>

vars == <<orchVars, fillVars, regVars, restVars>>

(* ------------------------------ bounds ------------------------------ *)

\* pages of a document
MaxPages == 2

\* widgets of a document
MaxFields == 3

\* largest chunk_size tried (the code's default of 50 scaled down)
MaxChunk == 2

(* --------------------------- Python values --------------------------- *)

PyNone == [t |-> "none"]

PyStr(s) == [t |-> "str", s |-> s]

PyInt(n) == [t |-> "int", n |-> n]

\* a {"cdm_key": v, "reasoning": ...} object of the classifier's response
PyDict(v) == [t |-> "dict", cdm_key |-> v]

\* Python truth value: None, "", 0 are false; a dict with a key is true
Truthy(v) ==
    CASE v.t = "none" -> FALSE
      [] v.t = "str"  -> v.s # <<>>
      [] v.t = "int"  -> v.n # 0
      [] OTHER        -> TRUE

IsStr(v) == v.t = "str"

\* the characters str.strip() removes
Whitespace == {" ", "\t", "\n"}

\* str.strip(): drop leading and trailing whitespace
RECURSIVE LStrip(_)
LStrip(s) == IF s # <<>> /\ Head(s) \in Whitespace THEN LStrip(Tail(s)) ELSE s

RECURSIVE RStrip(_)
RStrip(s) ==
    IF s # <<>> /\ s[Len(s)] \in Whitespace
    THEN RStrip(SubSeq(s, 1, Len(s) - 1))
    ELSE s

Strip(s) == RStrip(LStrip(s))

\* `pattern in field_id`: pattern occurs as a contiguous substring
Contains(s, p) ==
    \E i \in 1..(Len(s) - Len(p) + 1) : SubSeq(s, i, i + Len(p) - 1) = p

\* field_name.split('.')[-1] if '.' in field_name else field_name
RECURSIVE LastComponent(_)
LastComponent(s) ==
    IF \E i \in 1..Len(s) : s[i] = "."
    THEN LastComponent(Tail(s))
    ELSE s

\* dict.update(): the entries of b replace and extend those of a
Update(a, b) ==
    [k \in DOMAIN a \cup DOMAIN b |-> IF k \in DOMAIN b THEN b[k] ELSE a[k]]

EmptyDict == <<>>

(* --------------------------- region filter --------------------------- *)

IGNORE_PATTERNS ==
    << <<"F","o","r","m","M","a","s","t","e","r">>,
       <<"p","a","g","e","S","e","t">>,
       <<"s","e","c","t","i","o","n">>,
       <<"s","u","b","f","o","r","m">>,
       <<"b","o","r","d","e","r">>,
       <<"t","a","b","l","e">>,
       <<"b","t","n">>,
       <<"b","u","t","t","o","n">>,
       <<"Q","R","C","o","d","e">>,
       <<"s","i","g","n","a","t","u","r","e">>,
       <<"S","i","g","n","L","i","n","e">>,
       <<"C","L","R","P","N","T">>,
       <<"H","e","a","d","e","r">>,
       <<"F","o","o","t","e","r">>,
       <<"R","o","w">>,
       <<"F","o","r","m">>,
       <<"M","a","s","t","e","r">>,
       <<"s","u","b","S","e","c","t","i","o","n">>,
       <<"R","B">>,
       <<"c","k">>,
       <<"i","m","a","g","e">>,
       <<"#","s","u","b","f","o","r","m">>,
       <<"#","p","a","g","e","S","e","t">>,
       <<"B","A","R","C","O","D">>,
       <<"C","h","e","c","k","b","o","x">>,
       <<"D","a","t","e","S","i","g","n","e","d">>,
       <<"S","i","g","n","H","e","r","e">>,
       <<"F","u","l","l","N","a","m","e">>,
       <<"C","h","e","c","k">>,
       <<"c","h","e","c","k">>,
       <<"C","H","K">>,
       <<"c","h","k">>,
       <<"R","a","d","i","o">>,
       <<"r","a","d","i","o">>,
       <<"O","p","t","i","o","n">>,
       <<"o","p","t","i","o","n">> >>

MinIdLen == 3

\* ids of three characters dropped as well
IsNoise_short3(field_id) ==
    \/ \E i \in 1..Len(IGNORE_PATTERNS) : Contains(field_id, IGNORE_PATTERNS[i])
    \/ Len(field_id) <= MinIdLen

\* the two tests of the loop body: a denylisted substring, a short id
IsNoise(field_id) ==
    \/ \E i \in 1..Len(IGNORE_PATTERNS) : Contains(field_id, IGNORE_PATTERNS[i])
    \/ Len(field_id) < MinIdLen

\* the list filtered while it is walked: the field after a dropped one is
\* passed over
RECURSIVE filter_noise_fields_skip(_)
filter_noise_fields_skip(fields) ==
    IF fields = <<>> THEN <<>>
    ELSE IF IsNoise(Head(fields).field_id)
         THEN IF Len(fields) = 1 THEN <<>>
              ELSE <<fields[2]>> \o filter_noise_fields_skip(Tail(Tail(fields)))
         ELSE <<Head(fields)>> \o filter_noise_fields_skip(Tail(fields))

\* a filter that returns the list as given
filter_noise_fields_all(fields) == fields

\* filter_noise_fields: the fields that are not noise, in their order
RECURSIVE filter_noise_fields(_)
filter_noise_fields(fields) ==
    IF fields = <<>> THEN <<>>
    ELSE IF IsNoise(Head(fields).field_id)
         THEN filter_noise_fields(Tail(fields))
         ELSE <<Head(fields)>> \o filter_noise_fields(Tail(fields))

(* ------------------------------ schema ------------------------------ *)

account_number == <<"account", ".", "number">>

person_ssn == <<"person", ".", "ssn">>

\* a key the classifier may answer that the schema does not hold
bogus_key == <<"bogus", ".", "key">>

\* the keys of the CDM dict handed to process_pdf_form
cdm_schema == {account_number, person_ssn}

(* ----------------------------- documents ----------------------------- *)

\* The widgets a document can hold: a field name and the centre of its
\* rectangle.  Two sections declare a "city"; "zip" has no section prefix
\* and is a field with two widgets, which share its name; "s1.btn" is a
\* button.
Items ==
    { [name |-> <<"s","2",".","c","i","t","y">>, x |-> 1, y |-> 2],
      [name |-> <<"s","1",".","c","i","t","y">>, x |-> 1, y |-> 1],
      [name |-> <<"z","i","p">>,                 x |-> 2, y |-> 2],
      [name |-> <<"z","i","p">>,                 x |-> 2, y |-> 1],
      [name |-> <<"s","1",".","b","t","n">>,     x |-> 1, y |-> 3] }

\* the widgets of page p (1-indexed)
PageItems(p) == {w \in Items : doc[w] = p}

\* fields.sort(key=lambda f: (f["y"], f["x"]))
RECURSIVE SortByPosition(_)
SortByPosition(S) ==
    IF S = {} THEN <<>>
    ELSE LET first == CHOOSE f \in S : \A g \in S :
                          f.y < g.y \/ (f.y = g.y /\ f.x <= g.x)
         IN  <<first>> \o SortByPosition(S \ {first})

\* one field dict per widget, sorted top to bottom then left to right
extract_page_fields(p) ==
    SortByPosition({ [field_id      |-> LastComponent(w.name),
                      full_field_id |-> w.name,
                      x |-> w.x, y |-> w.y] : w \in PageItems(p) })

(* ----------------------------- batching ----------------------------- *)

Min(a, b) == IF a <= b THEN a ELSE b

\* a slice that loses its last element: fields[idx : idx + size - 1]
ChunkAt_short(fields, idx, size) ==
    SubSeq(fields, idx + 1, Min(idx + size - 1, Len(fields)))

\* fields[chunk_idx : chunk_idx + chunk_size]
ChunkAt(fields, idx, size) == SubSeq(fields, idx + 1, Min(idx + size, Len(fields)))

FieldIds(fields) == {fields[i].field_id : i \in 1..Len(fields)}

FullIds(fields) == {fields[i].full_field_id : i \in 1..Len(fields)}

(* ---------------------------- classifier ---------------------------- *)

\* The ways an entry can say "no key": null, the empty string, a blank
\* string, the string "null", each bare or as the cdm_key of an object.
NullLikeData ==
    { PyNone, PyStr(<<>>), PyStr(<<" ">>), PyStr(<<"null">>),
      PyDict(PyNone), PyDict(PyStr(<<>>)), PyDict(PyStr(<<" ">>)), PyDict(PyStr(<<"null">>)) }

\* What one entry of the classifier's JSON answer may hold: a bare key, a
\* key the schema lacks, or a {cdm_key, reasoning} object.  An id the
\* classifier leaves unresolved has no entry.  The runs that try a
\* null-like value draw entries from a key and that value.
RespData ==
    IF mode = "form_null"
    THEN { PyStr(account_number), null_like }
    ELSE { PyStr(bogus_key), PyStr(account_number), PyDict(PyStr(person_ssn)) }

\* The one field id a response may name besides those of its batch: the
\* button's.  The filter removes the button from every AcroForm batch, so
\* there it is an identifier that only the response holds.
foreign_id == <<"b","t","n">>

\* the JSON objects generate_json may return for a batch with these ids:
\* any answer or none for each id of the batch, or an answer for an id that
\* was not in the batch; the runs of the static path also try an answer for
\* every id of the batch together with one for an id that was not in it
Responses(ids) ==
    UNION {[S -> RespData] : S \in SUBSET ids} \cup
    {[k \in {foreign_id} \ ids |-> PyStr(account_number)]} \cup
    (IF mode = "static_run"
     THEN {[k \in ids \cup {foreign_id} |-> PyStr(account_number)]}
     ELSE {})

\* the call either raises or returns a JSON object
ClassifierOutcomes(ids) ==
    {[raised |-> TRUE, result |-> EmptyDict]} \cup
    {[raised |-> FALSE, result |-> r] : r \in Responses(ids)}

\* lines 286-298: keep the entries with a non-null, non-empty key
ExtractMappings(result) ==
    LET key(data) == IF data.t = "dict" THEN data.cdm_key ELSE data
        keep == {k \in DOMAIN result :
                    Truthy(key(result[k])) /\ key(result[k]) # PyStr(<<"null">>)}
    IN  [k \in keep |-> key(result[k])]

\* the same without the try/except: a raised call raises out
process_field_chunk_reraise(fields, outcome) ==
    IF fields = <<>> THEN [raised |-> FALSE, value |-> EmptyDict]
    ELSE IF outcome.raised THEN [raised |-> TRUE, value |-> EmptyDict]
    ELSE [raised |-> FALSE, value |-> ExtractMappings(outcome.result)]

\* _process_field_chunk: the classifier's outcome for this batch is given;
\* the try/except turns a raised call into the empty mapping
process_field_chunk(fields, outcome) ==
    IF fields = <<>> THEN [raised |-> FALSE, value |-> EmptyDict]
    ELSE IF outcome.raised THEN [raised |-> FALSE, value |-> EmptyDict]
    ELSE [raised |-> FALSE, value |-> ExtractMappings(outcome.result)]

\* the same without the check of lines 356-357
RECURSIVE StoreFullIds_unchecked(_, _, _)
StoreFullIds_unchecked(all, fields, page_mappings) ==
    IF fields = <<>> THEN all
    ELSE LET short_id == Head(fields).field_id
             full_id  == Head(fields).full_field_id
             next ==
                 IF short_id \in DOMAIN page_mappings
                 THEN Update(all, [k \in {full_id} |-> page_mappings[short_id]])
                 ELSE all
         IN  StoreFullIds_unchecked(next, Tail(fields), page_mappings)

\* lines 350-359: store the page's keys under the full field names
RECURSIVE StoreFullIds(_, _, _)
StoreFullIds(all, fields, page_mappings) ==
    IF fields = <<>> THEN all
    ELSE LET short_id == Head(fields).field_id
             full_id  == Head(fields).full_field_id
             next ==
                 IF short_id \in DOMAIN page_mappings
                 THEN LET cdm_key == page_mappings[short_id]
                      IN  IF Truthy(cdm_key) /\ IsStr(cdm_key)
                             /\ Strip(cdm_key.s) # <<>>
                          THEN Update(all, [k \in {full_id} |-> cdm_key])
                          ELSE all
                 ELSE all
         IN  StoreFullIds(next, Tail(fields), page_mappings)

(* ------------------------------ idling ------------------------------ *)

\* the fill join takes no part in the orchestration runs
FillIdle ==
    /\ field_to_cdm = EmptyDict
    /\ cdm = EmptyDict
    /\ filled_data = EmptyDict
    /\ fill_mapping = EmptyDict
    /\ fetched = EmptyDict

\* nor does the filter on its own
FilterIdle ==
    /\ region_list = <<>>
    /\ filtered = <<>>
    /\ refiltered = <<>>

\* nor does a whole run
RunIdle ==
    /\ pdf_ok = TRUE
    /\ output_written = FALSE
    /\ run_result = PyNone

\* nor does fill_pdf_with_values on its own
RenderIdle ==
    /\ render_fields = <<>>
    /\ render_idx = 0
    /\ render_log = <<>>
    /\ filled_count = 0
    /\ skipped_count = 0
    /\ failed_count = 0

\* nor does resolveLabel
LabelIdle ==
    /\ region = PyNone
    /\ text_runs = <<>>
    /\ search_radius = 0
    /\ label = PyNone

\* nor does build_cdm_from_record
RecordIdle ==
    /\ record = <<>>
    /\ field_mapping = EmptyDict
    /\ record_cdm = EmptyDict
    /\ inferred_names = {}

AuxIdle == LabelIdle /\ RecordIdle /\ null_like = PyNone

RestIdle == FilterIdle /\ RunIdle /\ RenderIdle /\ AuxIdle

\* nor does the registry
RegistryIdle ==
    /\ FIELD_PATTERNS = <<>>
    /\ num_adds = 0
    /\ field_name = <<>>
    /\ inferred = PyNone
    /\ repeated = FALSE

(* ------------------------- process_pdf_form ------------------------- *)

\* process_pdf_form called directly, or from process_pdf_form_with_cdm
FormModes == {"form", "run", "form_null"}

\* classify_textract_fields_with_llm called directly, or from
\* process_static_pdf_with_cdm
StaticModes == {"static", "static_run"}

Modes == {"form", "static", "direct", "chunk_list"}

Init ==
    /\ mode \in Modes
    /\ doc \in [Items -> 0..MaxPages]
    /\ Cardinality({w \in Items : doc[w] # 0}) <= MaxFields
    \* map_fields_to_cdm_direct and chunk_list take a list, with no pages
    /\ mode \in {"direct", "chunk_list"} => \A w \in Items : doc[w] <= 1
    /\ chunk_size \in 1..MaxChunk
    /\ pc = "page"
    /\ page_num = 0
    /\ filtered_fields = <<>>
    /\ chunk_idx = 0
    /\ mappings = EmptyDict
    /\ outcomes = <<>>
    /\ batches = <<>>
    /\ all_mappings = EmptyDict
    /\ FillIdle
    /\ RegistryIdle
    /\ RestIdle

\* for page_num, page in enumerate(doc): extract, filter, and either skip
\* the page or enter classify_and_map_fields_llm
BeginPage ==
    /\ mode \in FormModes
    /\ pc = "page"
    /\ page_num < MaxPages
    /\ LET fields == extract_page_fields(page_num + 1)
           kept   == filter_noise_fields(fields)
       IN  /\ filtered_fields' = kept
           /\ IF kept = <<>>
              THEN /\ page_num' = page_num + 1
                   /\ mappings' = EmptyDict
                   /\ outcomes' = <<>>
                   /\ batches' = <<>>
                   /\ UNCHANGED <<pc, chunk_idx>>
              ELSE /\ pc' = "chunk"
                   /\ chunk_idx' = 0
                   /\ mappings' = EmptyDict
                   /\ outcomes' = <<>>
                   /\ batches' = <<>>
                   /\ UNCHANGED page_num
    /\ UNCHANGED <<mode, doc, chunk_size, all_mappings>>
    /\ UNCHANGED <<fillVars, regVars, restVars>>

\* a loop that stays on a batch whose call raised
NextChunkIdx_retry(idx, size, outcome) == IF outcome.raised THEN idx ELSE idx + size

\* range(0, len(fields), chunk_size): the next start, whatever the call did
NextChunkIdx(idx, size, outcome) == idx + size

\* one turn of the loop of classify_and_map_fields_llm
ProcessChunk ==
    /\ mode \in FormModes \cup StaticModes
    /\ pc = "chunk"
    /\ chunk_idx < Len(filtered_fields)
    /\ LET chunk_fields == ChunkAt(filtered_fields, chunk_idx, chunk_size)
       IN  \E outcome \in ClassifierOutcomes(FieldIds(chunk_fields)) :
             LET chunk_mappings == process_field_chunk(chunk_fields, outcome)
             IN  /\ outcomes' = Append(outcomes, outcome)
                 /\ batches' = Append(batches, chunk_fields)
                 /\ IF chunk_mappings.raised
                    THEN /\ pc' = "raised"
                         /\ UNCHANGED <<mappings, chunk_idx>>
                    ELSE /\ mappings' = Update(mappings, chunk_mappings.value)
                         /\ chunk_idx' = NextChunkIdx(chunk_idx, chunk_size, outcome)
                         /\ UNCHANGED pc
    /\ UNCHANGED <<mode, doc, chunk_size, page_num, filtered_fields, all_mappings>>
    /\ UNCHANGED <<fillVars, regVars, restVars>>

\* classify_and_map_fields_llm returns; the page's keys are stored
MergePage ==
    /\ mode \in FormModes
    /\ pc = "chunk"
    /\ chunk_idx >= Len(filtered_fields)
    /\ all_mappings' = StoreFullIds(all_mappings, filtered_fields, mappings)
    /\ page_num' = page_num + 1
    /\ pc' = "page"
    /\ UNCHANGED <<mode, doc, chunk_size, filtered_fields, chunk_idx, mappings,
                   outcomes, batches>>
    /\ UNCHANGED <<fillVars, regVars, restVars>>

\* doc.close(); return all_mappings
Finish ==
    /\ mode \in FormModes
    /\ pc = "page"
    /\ page_num = MaxPages
    /\ pc' = "done"
    /\ filtered_fields' = <<>>
    /\ mappings' = EmptyDict
    /\ outcomes' = <<>>
    /\ batches' = <<>>
    /\ UNCHANGED <<mode, doc, chunk_size, page_num, chunk_idx, all_mappings>>
    /\ UNCHANGED <<fillVars, regVars, restVars>>

(* ---------------- classify_textract_fields_with_llm ---------------- *)

\* find_empty_fields: the fields Textract detected, in reading order
empty_fields ==
    SortByPosition({ [key_text |-> w.name, page |-> doc[w], x |-> w.x, y |-> w.y] :
                       w \in {v \in Items : doc[v] # 0} })

\* sorted(set(field.get('page', 1) for field in empty_fields))
StaticPages == {empty_fields[i].page : i \in 1..Len(empty_fields)}

RECURSIVE FieldsOfPage(_, _)
FieldsOfPage(fields, p) ==
    IF fields = <<>> THEN <<>>
    ELSE IF Head(fields).page = p
         THEN <<Head(fields)>> \o FieldsOfPage(Tail(fields), p)
         ELSE FieldsOfPage(Tail(fields), p)

\* for Textract, field_id and full_field_id are both the key text
RECURSIVE transform_textract_to_llm_format(_)
transform_textract_to_llm_format(fields) ==
    IF fields = <<>> THEN <<>>
    ELSE <<[field_id      |-> Head(fields).key_text,
            full_field_id |-> Head(fields).key_text,
            x |-> Head(fields).x, y |-> Head(fields).y]>>
         \o transform_textract_to_llm_format(Tail(fields))

\* for page_num in pages: the next page that holds fields
StaticBeginPage ==
    /\ mode \in StaticModes
    /\ pc = "page"
    /\ \E p \in StaticPages :
         /\ p > page_num
         /\ \A q \in StaticPages : q > page_num => p <= q
         /\ page_num' = p
         /\ filtered_fields' =
                transform_textract_to_llm_format(FieldsOfPage(empty_fields, p))
    /\ pc' = "chunk"
    /\ chunk_idx' = 0
    /\ mappings' = EmptyDict
    /\ outcomes' = <<>>
    /\ batches' = <<>>
    /\ UNCHANGED <<mode, doc, chunk_size, all_mappings>>
    /\ UNCHANGED <<fillVars, regVars, restVars>>

\* all_mappings.update(mappings); the page's locals are dead afterwards
StaticMergePage ==
    /\ mode \in StaticModes
    /\ pc = "chunk"
    /\ chunk_idx >= Len(filtered_fields)
    /\ all_mappings' = Update(all_mappings, mappings)
    /\ pc' = "page"
    /\ filtered_fields' = <<>>
    /\ mappings' = EmptyDict
    /\ outcomes' = <<>>
    /\ batches' = <<>>
    /\ UNCHANGED <<mode, doc, chunk_size, page_num, chunk_idx>>
    /\ UNCHANGED <<fillVars, regVars, restVars>>

\* return all_mappings
StaticFinish ==
    /\ mode \in StaticModes
    /\ pc = "page"
    /\ \A q \in StaticPages : q <= page_num
    /\ pc' = "done"
    /\ UNCHANGED <<mode, doc, chunk_size, page_num, filtered_fields, chunk_idx,
                   mappings, outcomes, batches, all_mappings>>
    /\ UNCHANGED <<fillVars, regVars, restVars>>

(* --------------------- map_fields_to_cdm_direct --------------------- *)

ignore_patterns ==
    << <<"F","o","r","m","M","a","s","t","e","r">>,
       <<"p","a","g","e","S","e","t">>,
       <<"s","e","c","t","i","o","n">>,
       <<"s","u","b","f","o","r","m">>,
       <<"b","o","r","d","e","r">>,
       <<"t","a","b","l","e">>,
       <<"b","t","n">>,
       <<"Q","R","C","o","d","e">>,
       <<"s","i","g","n","a","t","u","r","e">>,
       <<"S","i","g","n","L","i","n","e">>,
       <<"C","L","R","P","N","T">>,
       <<"H","e","a","d","e","r">>,
       <<"R","o","w">>,
       <<"F","o","r","m">>,
       <<"M","a","s","t","e","r">>,
       <<"s","u","b","S","e","c","t","i","o","n">>,
       <<"R","B">>,
       <<"c","k">>,
       <<"i","m","a","g","e">>,
       <<"#","s","u","b","f","o","r","m">>,
       <<"#","p","a","g","e","S","e","t">>,
       <<"B","A","R","C","O","D">>,
       <<"C","h","e","c","k","b","o","x">>,
       <<"D","a","t","e","S","i","g","n","e","d">>,
       <<"S","i","g","n","H","e","r","e">>,
       <<"F","u","l","l","N","a","m","e">> >>

\* the names handed in, wrapped as field dicts whose id is the whole name
actual_field_names ==
    SortByPosition({ [field_id |-> w.name, full_field_id |-> w.name,
                      x |-> w.x, y |-> w.y] : w \in {v \in Items : doc[v] # 0} })

\* lines 32-36: the list comprehension over the whole names
RECURSIVE DirectFilter(_)
DirectFilter(fields) ==
    IF fields = <<>> THEN <<>>
    ELSE LET f == Head(fields).field_id
         IN  IF /\ ~\E i \in 1..Len(ignore_patterns) : Contains(f, ignore_patterns[i])
                /\ Len(f) > 2
             THEN <<Head(fields)>> \o DirectFilter(Tail(fields))
             ELSE DirectFilter(Tail(fields))

\* lines 96-113: json.loads and mapping.update inside the try; the except
\* branch continues with the next chunk
DirectChunkResult(mapping, outcome) ==
    IF outcome.raised
    THEN [raised |-> FALSE, value |-> mapping]
    ELSE [raised |-> FALSE, value |-> Update(mapping, outcome.result)]

\* mapping = {}; filter; return at once when nothing is left
DirectBegin ==
    /\ mode = "direct"
    /\ pc = "page"
    /\ LET kept == DirectFilter(actual_field_names)
       IN  /\ filtered_fields' = kept
           /\ pc' = IF kept = <<>> THEN "done" ELSE "chunk"
    /\ chunk_idx' = 0
    /\ UNCHANGED <<mode, doc, chunk_size, page_num, mappings, outcomes, batches,
                   all_mappings>>
    /\ UNCHANGED <<fillVars, regVars, restVars>>

\* one turn of the loop over range(0, len(filtered_fields), chunk_size)
DirectChunk ==
    /\ mode = "direct"
    /\ pc = "chunk"
    /\ chunk_idx < Len(filtered_fields)
    /\ LET chunk == ChunkAt(filtered_fields, chunk_idx, chunk_size)
       IN  \E outcome \in ClassifierOutcomes(FieldIds(chunk)) :
             LET r == DirectChunkResult(all_mappings, outcome)
             IN  /\ outcomes' = Append(outcomes, outcome)
                 /\ batches' = Append(batches, chunk)
                 /\ IF r.raised
                    THEN /\ pc' = "raised"
                         /\ UNCHANGED <<all_mappings, chunk_idx>>
                    ELSE /\ all_mappings' = r.value
                         /\ chunk_idx' = chunk_idx + chunk_size
                         /\ UNCHANGED pc
    /\ UNCHANGED <<mode, doc, chunk_size, page_num, filtered_fields, mappings>>
    /\ UNCHANGED <<fillVars, regVars, restVars>>

\* return mapping
DirectReturn ==
    /\ mode = "direct"
    /\ pc = "chunk"
    /\ chunk_idx >= Len(filtered_fields)
    /\ pc' = "done"
    /\ UNCHANGED <<mode, doc, chunk_size, page_num, filtered_fields, chunk_idx,
                   mappings, outcomes, batches, all_mappings>>
    /\ UNCHANGED <<fillVars, regVars, restVars>>

(* ----------------------------- chunk_list ----------------------------- *)

\* chunk_list(lst, n) is called: the generator starts at i = 0
ChunkListCall ==
    /\ mode = "chunk_list"
    /\ pc = "page"
    /\ filtered_fields' = actual_field_names
    /\ chunk_idx' = 0
    /\ pc' = "chunk"
    /\ UNCHANGED <<mode, doc, chunk_size, page_num, mappings, outcomes, batches,
                   all_mappings>>
    /\ UNCHANGED <<fillVars, regVars, restVars>>

\* yield lst[i:i + n]
ChunkListYield ==
    /\ mode = "chunk_list"
    /\ pc = "chunk"
    /\ chunk_idx < Len(filtered_fields)
    /\ batches' = Append(batches, ChunkAt(filtered_fields, chunk_idx, chunk_size))
    /\ chunk_idx' = chunk_idx + chunk_size
    /\ UNCHANGED <<mode, doc, chunk_size, pc, page_num, filtered_fields, mappings,
                   outcomes, all_mappings>>
    /\ UNCHANGED <<fillVars, regVars, restVars>>

\* the range is exhausted
ChunkListStop ==
    /\ mode = "chunk_list"
    /\ pc = "chunk"
    /\ chunk_idx >= Len(filtered_fields)
    /\ pc' = "done"
    /\ UNCHANGED <<mode, doc, chunk_size, page_num, filtered_fields, chunk_idx,
                   mappings, outcomes, batches, all_mappings>>
    /\ UNCHANGED <<fillVars, regVars, restVars>>

Next ==
    \/ BeginPage \/ ProcessChunk \/ MergePage \/ Finish
    \/ StaticBeginPage \/ StaticMergePage \/ StaticFinish
    \/ DirectBegin \/ DirectChunk \/ DirectReturn
    \/ ChunkListCall \/ ChunkListYield \/ ChunkListStop

Spec == Init /\ [][Next]_vars

(* ===================== properties of the orchestration ===================== *)

\* the batch (counted from 1) that holds the i-th filtered field
BatchOf(i) == ((i - 1) \div chunk_size) + 1

\* the key an answer gives an id: the bare value, or the cdm_key of the
\* object; None when the call raised or the answer has no entry for the id
AnsweredKey(outcome, id) ==
    IF outcome.raised \/ id \notin DOMAIN outcome.result THEN PyNone
    ELSE LET data == outcome.result[id]
         IN  IF data.t = "dict" THEN data.cdm_key ELSE data

IsSchemaKey(v) == v.t = "str" /\ v.s \in cdm_schema

\* process_pdf_form has just stored the keys of the page whose filtered
\* fields, batches and answers the state still holds
PageMerged == mode = "form" /\ pc = "page" /\ outcomes # <<>>

\* the loop over the batches is not in progress
LoopDone == ~(pc = "chunk" /\ chunk_idx < Len(filtered_fields))

\* the least k with k * c >= n
CeilDiv(n, c) == CHOOSE k \in 0..n : k * c >= n /\ \A j \in 0..n : j * c >= n => k <= j

RECURSIVE Concat(_)
Concat(ss) == IF ss = <<>> THEN <<>> ELSE Head(ss) \o Concat(Tail(ss))

RemoveAt(s, b) == SubSeq(s, 1, b - 1) \o SubSeq(s, b + 1, Len(s))

\* the page mapping that merging the batch results in the order p gives
RECURSIVE MergedInOrder(_, _, _)
MergedInOrder(bs, os, p) ==
    IF p = <<>> THEN EmptyDict
    ELSE Update(MergedInOrder(bs, os, SubSeq(p, 1, Len(p) - 1)),
                process_field_chunk(bs[p[Len(p)]], os[p[Len(p)]]).value)

Orders(n) == {p \in [1..n -> 1..n] : \A i, j \in 1..n : p[i] = p[j] => i = j}

Identity(n) == [i \in 1..n |-> i]

\* two Mappings agree on the regions of a list
AgreeOn(m1, m2, fields) ==
    \A i \in 1..Len(fields) :
        LET id == fields[i].full_field_id
        IN  /\ id \in DOMAIN m1 <=> id \in DOMAIN m2
            /\ id \in DOMAIN m1 => m1[id] = m2[id]

\* C1: on a page with two filtered regions of the same shortId and distinct
\* fullIds for which the classifier answered two different schema keys, the
\* Mapping holds each fullId with its own key.
CollisionSafety ==
    PageMerged =>
        \A i, j \in 1..Len(filtered_fields) :
            LET f  == filtered_fields[i]
                g  == filtered_fields[j]
                kf == AnsweredKey(outcomes[BatchOf(i)], f.field_id)
                kg == AnsweredKey(outcomes[BatchOf(j)], g.field_id)
            IN  ( /\ f.field_id = g.field_id
                  /\ f.full_field_id # g.full_field_id
                  /\ IsSchemaKey(kf) /\ IsSchemaKey(kg) /\ kf # kg )
                => /\ f.full_field_id \in DOMAIN all_mappings
                   /\ all_mappings[f.full_field_id] = kf
                   /\ g.full_field_id \in DOMAIN all_mappings
                   /\ all_mappings[g.full_field_id] = kg

\* C2: when the classifier raised for a batch, no region of that batch is in
\* the Mapping, and the regions of the other batches are mapped exactly as if
\* the failing batch had not been there.
FailOpen ==
    PageMerged =>
        \A b \in 1..Len(outcomes) :
            outcomes[b].raised =>
                LET others == Concat(RemoveAt(batches, b))
                    n      == Len(outcomes) - 1
                    expected ==
                        StoreFullIds(EmptyDict, others,
                                     MergedInOrder(RemoveAt(batches, b),
                                                   RemoveAt(outcomes, b), Identity(n)))
                IN  /\ \A i \in 1..Len(batches[b]) :
                          batches[b][i].full_field_id \notin DOMAIN all_mappings
                    /\ AgreeOn(all_mappings, expected, others)

\* C3: every value of the Mapping process_pdf_form builds is a key of the schema.
SchemaKeysOnly ==
    mode = "form" => \A id \in DOMAIN all_mappings : IsSchemaKey(all_mappings[id])

\* C5: a failing classifier call never raises out of the orchestrator: the
\* loop advances past the failing batch, every batch of the page is
\* dispatched, and the run ends only after the last page.
ContinuesAfterFailure ==
    /\ pc # "raised"
    /\ (mode # "chunk_list" /\ pc = "chunk") => chunk_idx = Len(outcomes) * chunk_size
    /\ (mode # "chunk_list" /\ LoopDone) =>
           Len(outcomes) = CeilDiv(Len(filtered_fields), chunk_size)
    /\ (mode = "form" /\ pc = "done") => page_num = MaxPages
    /\ (mode = "static" /\ pc = "done") => \A w \in Items : doc[w] <= page_num

\* a batch failed, the next one was dispatched and mapped a region
FailureThenSuccess ==
    /\ PageMerged
    /\ Len(outcomes) >= 2
    /\ outcomes[1].raised
    /\ ~outcomes[2].raised
    /\ \E i \in 1..Len(batches[2]) : batches[2][i].full_field_id \in DOMAIN all_mappings

\* C6: merging the page's batch results in any order gives the Mapping the
\* sequential loop gives.
MergeOrderIndependence ==
    PageMerged =>
        \A p \in Orders(Len(outcomes)) :
            AgreeOn(all_mappings,
                    StoreFullIds(EmptyDict, filtered_fields,
                                 MergedInOrder(batches, outcomes, p)),
                    filtered_fields)

\* the fullIds of the regions a run submits to the classifier
SubmittedFullIds ==
    IF mode = "form"
    THEN {w.name : w \in {v \in Items : doc[v] # 0 /\ ~IsNoise(LastComponent(v.name))}}
    ELSE {w.name : w \in {v \in Items : doc[v] # 0}}

\* C7: every key of the Mapping of process_pdf_form and of
\* classify_textract_fields_with_llm is the fullId of a submitted region.
KeysAreSubmittedFullIds ==
    mode \in {"form", "static"} => DOMAIN all_mappings \subseteq SubmittedFullIds

\* C8: in a run of process_pdf_form an entry of the Mapping, once written,
\* is neither changed nor removed.
MappingIsAdditive ==
    [][mode = "form" =>
          \A id \in DOMAIN all_mappings :
              id \in DOMAIN all_mappings' /\ all_mappings'[id] = all_mappings[id]]_vars

\* no two widgets of the document share a field name
UniqueFullIds ==
    \A v, w \in Items : (doc[v] # 0 /\ doc[w] # 0 /\ v.name = w.name) => v = w

\* in a document without repeated field names no entry is written twice
AdditiveWhenUnique ==
    [][(mode = "form" /\ UniqueFullIds) =>
          \A id \in DOMAIN all_mappings :
              id \in DOMAIN all_mappings' /\ all_mappings'[id] = all_mappings[id]]_vars

\* C9: the batches are contiguous slices of 1..chunk_size fields that
\* concatenate, in dispatch order, to the input list; there are
\* ceil(n / chunk_size) of them when the loop ends.
BatchesPartition ==
    /\ \A b \in 1..Len(batches) : Len(batches[b]) \in 1..chunk_size
    /\ Len(Concat(batches)) <= Len(filtered_fields)
    /\ Concat(batches) = SubSeq(filtered_fields, 1, Len(Concat(batches)))
    /\ LoopDone =>
           /\ Concat(batches) = filtered_fields
           /\ Len(batches) = CeilDiv(Len(filtered_fields), chunk_size)

\* a list of three fields has been cut into a full batch and a shorter one
ShortLastBatch ==
    /\ LoopDone
    /\ Len(filtered_fields) = 3
    /\ Len(batches) = 2
    /\ Len(batches[1]) = 2
    /\ Len(batches[2]) = 1

\* C22: the classifier is invoked once for each batch, whether the call
\* succeeds or raises: the i-th invocation is for the i-th slice of the
\* page's filtered fields, and a page with n filtered fields has had
\* ceil(n / chunk_size) invocations when its loop ends.
NoRetries ==
    mode \in {"form", "static"} =>
        /\ Len(outcomes) = Len(batches)
        /\ \A i \in 1..Len(outcomes) :
               batches[i] = ChunkAt(filtered_fields, (i - 1) * chunk_size, chunk_size)
        /\ Len(outcomes) <= CeilDiv(Len(filtered_fields), chunk_size)
        /\ LoopDone => Len(outcomes) = CeilDiv(Len(filtered_fields), chunk_size)

\* a page of three fields in batches of two: the first call raised and
\* the page ended after two invocations
FailedBatchNotResent ==
    /\ PageMerged
    /\ Len(filtered_fields) = 3
    /\ chunk_size = 2
    /\ Len(outcomes) = 2
    /\ outcomes[1].raised
    /\ ~outcomes[2].raised

(* ========================= the fill-value join ========================= *)

\* str(value) of the values the join meets
StrOf(v) ==
    CASE v.t = "str" -> v.s
      [] v.t = "int" -> <<ToString(v.n)>>
      [] OTHER       -> <<"None">>

\* `cdm_key in cdm`
InDict(cdm_key, d) == cdm_key.t = "str" /\ cdm_key.s \in DOMAIN d

\* main.py lines 107-112 and field_mapper.py lines 133-143: the same loop
FillLoopResult(mapping, data) ==
    LET keep == {f \in DOMAIN mapping :
                    /\ Truthy(mapping[f])
                    /\ InDict(mapping[f], data)
                    /\ Truthy(data[mapping[f].s])
                    /\ Strip(StrOf(data[mapping[f].s])) # <<>>}
    IN  [f \in keep |-> data[mapping[f].s]]

\* result[field] = cdm.get(cdm_path, "")
fetch_from_cdm(mapping, data) ==
    [f \in DOMAIN mapping |->
        IF InDict(mapping[f], data) THEN data[mapping[f].s] ELSE PyStr(<<>>)]

\* the regions of the Mappings tried
FillIds == {<<"s","1",".","c","i","t","y">>, <<"z","i","p">>}

\* what a Mapping may hold for a region
FillKeys == {PyNone, PyStr(account_number), PyStr(person_ssn), PyStr(bogus_key)}

\* what the CDM data may hold for a key
CdmValues ==
    { PyNone, PyStr(<<>>), PyStr(<<" ">>), PyStr(<<"Jane">>), PyStr(<<" ", "Doe", " ">>),
      PyInt(0), PyInt(7) }

OrchIdle ==
    /\ doc = [w \in Items |-> 0]
    /\ chunk_size = 1
    /\ page_num = 0
    /\ filtered_fields = <<>>
    /\ chunk_idx = 0
    /\ mappings = EmptyDict
    /\ outcomes = <<>>
    /\ batches = <<>>
    /\ all_mappings = EmptyDict

InitFill ==
    /\ mode = "fill"
    /\ pc = "fill"
    /\ field_to_cdm \in UNION {[S -> FillKeys] : S \in SUBSET FillIds}
    /\ cdm \in UNION {[S -> CdmValues] : S \in SUBSET cdm_schema}
    /\ filled_data = EmptyDict
    /\ fill_mapping = EmptyDict
    /\ fetched = EmptyDict
    /\ OrchIdle
    /\ RegistryIdle
    /\ RestIdle

\* process_pdf_form_with_cdm, lines 106-112
FillLoop ==
    /\ mode = "fill"
    /\ pc = "fill"
    /\ filled_data' = FillLoopResult(field_to_cdm, cdm)
    /\ pc' = "direct"
    /\ UNCHANGED <<mode, field_to_cdm, cdm, fill_mapping, fetched>>
    /\ UNCHANGED <<doc, chunk_size, page_num, filtered_fields, chunk_idx, mappings,
                   outcomes, batches, all_mappings, regVars, restVars>>

\* create_fill_mapping_direct, lines 133-143
CreateFillMappingDirect ==
    /\ mode = "fill"
    /\ pc = "direct"
    /\ fill_mapping' = FillLoopResult(field_to_cdm, cdm)
    /\ pc' = "fetch"
    /\ UNCHANGED <<mode, field_to_cdm, cdm, filled_data, fetched>>
    /\ UNCHANGED <<doc, chunk_size, page_num, filtered_fields, chunk_idx, mappings,
                   outcomes, batches, all_mappings, regVars, restVars>>

\* fetch_from_cdm(mapping, cdm)
FetchFromCdm ==
    /\ mode = "fill"
    /\ pc = "fetch"
    /\ fetched' = fetch_from_cdm(field_to_cdm, cdm)
    /\ pc' = "done"
    /\ UNCHANGED <<mode, field_to_cdm, cdm, filled_data, fill_mapping>>
    /\ UNCHANGED <<doc, chunk_size, page_num, filtered_fields, chunk_idx, mappings,
                   outcomes, batches, all_mappings, regVars, restVars>>

NextFill == FillLoop \/ CreateFillMappingDirect \/ FetchFromCdm

SpecFill == InitFill /\ [][NextFill]_vars

\* a value that is missing, empty or only whitespace
IsBlankValue(v) == v.t = "none" \/ (v.t = "str" /\ Strip(v.s) = <<>>)

\* C4: no FillSet the three joins produce holds a blank value.
NoBlankFill ==
    pc = "done" =>
        /\ \A f \in DOMAIN filled_data : ~IsBlankValue(filled_data[f])
        /\ \A f \in DOMAIN fill_mapping : ~IsBlankValue(fill_mapping[f])
        /\ \A f \in DOMAIN fetched : ~IsBlankValue(fetched[f])

\* the regions whose mapped key is in the CDM data with a value that exists
\* and is not empty once trimmed
Eligible(mapping, data) ==
    {f \in DOMAIN mapping :
        /\ mapping[f].t = "str"
        /\ mapping[f].s \in DOMAIN data
        /\ ~IsBlankValue(data[mapping[f].s])
        /\ Strip(StrOf(data[mapping[f].s])) # <<>>}

\* C17: the FillSet of process_pdf_form_with_cdm holds exactly the regions
\* whose mapped key has a value in the CDM data that is not empty once
\* trimmed, each with that value.
FillSetExact ==
    pc # "fill" =>
        filled_data = [f \in Eligible(field_to_cdm, cdm) |-> cdm[field_to_cdm[f].s]]

\* the same for CDM data whose values are all strings or absent
FillSetExactForStrings ==
    (pc # "fill" /\ \A k \in DOMAIN cdm : cdm[k].t \in {"str", "none"}) =>
        filled_data = [f \in Eligible(field_to_cdm, cdm) |-> cdm[field_to_cdm[f].s]]

(* ========================= the pattern registry ========================= *)

\* calls of add_custom_field_pattern in a run
MaxAdds == 2

UpperCase == <<"A","B","C","D","E","F","G","H","I","J","K","L","M",
               "N","O","P","Q","R","S","T","U","V","W","X","Y","Z">>

LowerCase == <<"a","b","c","d","e","f","g","h","i","j","k","l","m",
               "n","o","p","q","r","s","t","u","v","w","x","y","z">>

LowerChar(c) ==
    IF \E i \in 1..Len(UpperCase) : UpperCase[i] = c
    THEN LowerCase[CHOOSE i \in 1..Len(UpperCase) : UpperCase[i] = c]
    ELSE c

\* str.lower()
Lower(s) == [i \in 1..Len(s) |-> LowerChar(s[i])]

\* str.replace(" ", "_")
ReplaceSpaces(s) == [i \in 1..Len(s) |-> IF s[i] = " " THEN "_" ELSE s[i]]

\* field_name.lower().strip().replace(" ", "_")
Normalize(s) == ReplaceSpaces(Strip(Lower(s)))

\* A pattern is the set of strings its alternatives spell (each "_?" taken
\* both ways) and whether it ends in "$".  re.match anchors at the start
\* only: without "$" a pattern matches when it spells a prefix of the string.
\* re.IGNORECASE compares without regard to case.
Matches(pattern, s) ==
    \E a \in pattern.alts :
        IF pattern.anchored
        THEN Len(a) = Len(s) /\ Lower(a) = Lower(s)
        ELSE Len(a) <= Len(s) /\ Lower(a) = Lower(SubSeq(s, 1, Len(a)))

\* FIELD_PATTERNS as the module defines it, in the order of the dict
InitialPatterns ==
    <<
       [key |-> <<"person", ".", "full_name">>,
        patterns |-> <<
            [anchored |-> TRUE, alts |-> {<<"f","u","l","l","n","a","m","e">>,
                   <<"f","u","l","l","_","n","a","m","e">>,
                   <<"n","a","m","e">>,
                   <<"f","u","l","l","l","e","g","a","l","n","a","m","e">>,
                   <<"f","u","l","l","l","e","g","a","l","_","n","a","m","e">>,
                   <<"f","u","l","l","_","l","e","g","a","l","n","a","m","e">>,
                   <<"f","u","l","l","_","l","e","g","a","l","_","n","a","m","e">>}],
            [anchored |-> TRUE, alts |-> {<<"c","l","i","e","n","t","n","a","m","e">>,
                   <<"c","l","i","e","n","t","_","n","a","m","e">>,
                   <<"c","u","s","t","o","m","e","r","n","a","m","e">>,
                   <<"c","u","s","t","o","m","e","r","_","n","a","m","e">>}] >>],
       [key |-> <<"person", ".", "first_name">>,
        patterns |-> <<
            [anchored |-> TRUE, alts |-> {<<"f","i","r","s","t","n","a","m","e">>,
                   <<"f","i","r","s","t","_","n","a","m","e">>,
                   <<"g","i","v","e","n","n","a","m","e">>,
                   <<"g","i","v","e","n","_","n","a","m","e">>,
                   <<"f","n","a","m","e">>}] >>],
       [key |-> <<"person", ".", "middle_name">>,
        patterns |-> <<
            [anchored |-> TRUE, alts |-> {<<"m","i","d","d","l","e","n","a","m","e">>,
                   <<"m","i","d","d","l","e","_","n","a","m","e">>,
                   <<"m","i","d","d","l","e","i","n","i","t","i","a","l">>,
                   <<"m","i","d","d","l","e","_","i","n","i","t","i","a","l">>,
                   <<"m","n","a","m","e">>,
                   <<"m","i">>}] >>],
       [key |-> <<"person", ".", "last_name">>,
        patterns |-> <<
            [anchored |-> TRUE, alts |-> {<<"l","a","s","t","n","a","m","e">>,
                   <<"l","a","s","t","_","n","a","m","e">>,
                   <<"s","u","r","n","a","m","e">>,
                   <<"f","a","m","i","l","y","n","a","m","e">>,
                   <<"f","a","m","i","l","y","_","n","a","m","e">>,
                   <<"l","n","a","m","e">>}] >>],
       [key |-> <<"person", ".", "suffix">>,
        patterns |-> <<
            [anchored |-> TRUE, alts |-> {<<"s","u","f","f","i","x">>,
                   <<"n","a","m","e","s","u","f","f","i","x">>,
                   <<"n","a","m","e","_","s","u","f","f","i","x">>,
                   <<"j","r","s","r">>,
                   <<"j","r","_","s","r">>}] >>],
       [key |-> <<"person", ".", "ssn">>,
        patterns |-> <<
            [anchored |-> TRUE, alts |-> {<<"s","s","n">>,
                   <<"s","o","c","i","a","l","s","e","c","u","r","i","t","y">>,
                   <<"s","o","c","i","a","l","_","s","e","c","u","r","i","t","y">>,
                   <<"t","a","x","i","d">>,
                   <<"t","a","x","_","i","d">>,
                   <<"e","i","n">>,
                   <<"t","i","n">>}] >>],
       [key |-> <<"person", ".", "phone">>,
        patterns |-> <<
            [anchored |-> TRUE, alts |-> {<<"p","h","o","n","e">>,
                   <<"m","o","b","i","l","e">>,
                   <<"c","e","l","l">>,
                   <<"t","e","l","e","p","h","o","n","e">>,
                   <<"c","o","n","t","a","c","t","n","u","m","b","e","r">>,
                   <<"c","o","n","t","a","c","t","_","n","u","m","b","e","r">>}],
            [anchored |-> TRUE, alts |-> {<<"p","h","o","n","e","n","u","m","b","e","r">>,
                   <<"p","h","o","n","e","_","n","u","m","b","e","r">>,
                   <<"m","o","b","i","l","e","n","u","m","b","e","r">>,
                   <<"m","o","b","i","l","e","_","n","u","m","b","e","r">>}] >>],
       [key |-> <<"person", ".", "phone_extension">>,
        patterns |-> <<
            [anchored |-> TRUE, alts |-> {<<"e","x","t">>,
                   <<"e","x","t","e","n","s","i","o","n">>,
                   <<"p","h","o","n","e","e","x","t">>,
                   <<"p","h","o","n","e","_","e","x","t">>}] >>],
       [key |-> <<"person", ".", "email">>,
        patterns |-> <<
            [anchored |-> TRUE, alts |-> {<<"e","m","a","i","l">>,
                   <<"e","m","a","i","l">>,
                   <<"e","_","m","a","i","l">>,
                   <<"e","m","a","i","l","a","d","d","r","e","s","s">>,
                   <<"e","m","a","i","l","_","a","d","d","r","e","s","s">>}] >>],
       [key |-> <<"person", ".", "dob">>,
        patterns |-> <<
            [anchored |-> TRUE, alts |-> {<<"d","o","b">>,
                   <<"d","a","t","e","o","f","b","i","r","t","h">>,
                   <<"d","a","t","e","o","f","_","b","i","r","t","h">>,
                   <<"d","a","t","e","_","o","f","b","i","r","t","h">>,
                   <<"d","a","t","e","_","o","f","_","b","i","r","t","h">>,
                   <<"b","i","r","t","h","d","a","t","e">>,
                   <<"b","i","r","t","h","_","d","a","t","e">>,
                   <<"b","i","r","t","h","d","a","t","e">>}] >>],
       [key |-> <<"person", ".", "address">>,
        patterns |-> <<
            [anchored |-> TRUE, alts |-> {<<"a","d","d","r","e","s","s">>,
                   <<"f","u","l","l","a","d","d","r","e","s","s">>,
                   <<"f","u","l","l","_","a","d","d","r","e","s","s">>,
                   <<"m","a","i","l","i","n","g","a","d","d","r","e","s","s">>,
                   <<"m","a","i","l","i","n","g","_","a","d","d","r","e","s","s">>}] >>],
       [key |-> <<"person", ".", "street">>,
        patterns |-> <<
            [anchored |-> TRUE, alts |-> {<<"s","t","r","e","e","t">>,
                   <<"s","t","r","e","e","t","a","d","d","r","e","s","s">>,
                   <<"s","t","r","e","e","t","_","a","d","d","r","e","s","s">>,
                   <<"a","d","d","r","e","s","s","l","i","n","e">>,
                   <<"a","d","d","r","e","s","s","_","l","i","n","e">>,
                   <<"a","d","d","r">>}],
            [anchored |-> TRUE, alts |-> {<<"s","t","r","e","e","t","1">>,
                   <<"s","t","r","e","e","t","_","1">>,
                   <<"a","d","d","r","e","s","s","1">>,
                   <<"a","d","d","r","e","s","s","_","1">>}] >>],
       [key |-> <<"person", ".", "city">>,
        patterns |-> <<
            [anchored |-> TRUE, alts |-> {<<"c","i","t","y">>}] >>],
       [key |-> <<"person", ".", "state">>,
        patterns |-> <<
            [anchored |-> TRUE, alts |-> {<<"s","t","a","t","e">>,
                   <<"p","r","o","v","i","n","c","e">>}] >>],
       [key |-> <<"person", ".", "zip">>,
        patterns |-> <<
            [anchored |-> TRUE, alts |-> {<<"z","i","p">>,
                   <<"z","i","p","c","o","d","e">>,
                   <<"z","i","p","_","c","o","d","e">>,
                   <<"p","o","s","t","a","l","c","o","d","e">>,
                   <<"p","o","s","t","a","l","_","c","o","d","e">>,
                   <<"p","o","s","t","c","o","d","e">>}] >>],
       [key |-> <<"account", ".", "number">>,
        patterns |-> <<
            [anchored |-> TRUE, alts |-> {<<"a","c","c","o","u","n","t","n","u","m","b","e","r">>,
                   <<"a","c","c","o","u","n","t","_","n","u","m","b","e","r">>,
                   <<"a","c","c","t","n","u","m">>,
                   <<"a","c","c","t","_","n","u","m">>,
                   <<"a","c","c","o","u","n","t","n","o">>,
                   <<"a","c","c","o","u","n","t","_","n","o">>}] >>],
       [key |-> <<"account", ".", "type">>,
        patterns |-> <<
            [anchored |-> TRUE, alts |-> {<<"a","c","c","o","u","n","t","t","y","p","e">>,
                   <<"a","c","c","o","u","n","t","_","t","y","p","e">>,
                   <<"a","c","c","t","t","y","p","e">>,
                   <<"a","c","c","t","_","t","y","p","e">>}] >>],
       [key |-> <<"bank", ".", "name">>,
        patterns |-> <<
            [anchored |-> TRUE, alts |-> {<<"b","a","n","k","n","a","m","e">>,
                   <<"b","a","n","k","_","n","a","m","e">>,
                   <<"i","n","s","t","i","t","u","t","i","o","n","n","a","m","e">>,
                   <<"i","n","s","t","i","t","u","t","i","o","n","_","n","a","m","e">>,
                   <<"f","i","n","a","n","c","i","a","l","i","n","s","t","i","t","u","t","i","o","n">>,
                   <<"f","i","n","a","n","c","i","a","l","_","i","n","s","t","i","t","u","t","i","o","n">>}] >>],
       [key |-> <<"bank", ".", "routing">>,
        patterns |-> <<
            [anchored |-> TRUE, alts |-> {<<"r","o","u","t","i","n","g">>,
                   <<"r","o","u","t","i","n","g","n","u","m","b","e","r">>,
                   <<"r","o","u","t","i","n","g","_","n","u","m","b","e","r">>,
                   <<"a","b","a">>,
                   <<"a","b","a","n","u","m","b","e","r">>,
                   <<"a","b","a","_","n","u","m","b","e","r">>}] >>]
    >>

AnyMatches(patterns, s) == \E j \in 1..Len(patterns) : Matches(patterns[j], s)

\* the loop read backwards: the last matching key wins
RECURSIVE infer_cdm_key_last(_, _)
infer_cdm_key_last(registry, name) ==
    IF registry = <<>> THEN PyNone
    ELSE IF AnyMatches(registry[Len(registry)].patterns, Normalize(name))
         THEN PyStr(registry[Len(registry)].key)
         ELSE infer_cdm_key_last(SubSeq(registry, 1, Len(registry) - 1), name)

\* a result that depends on the call before: nothing after a hit
infer_cdm_key_once(registry, name) ==
    IF inferred # PyNone THEN PyNone ELSE infer_cdm_key_last(registry, name)

\* infer_cdm_key: the first key, in dict order, one of whose patterns matches
RECURSIVE infer_cdm_key(_, _)
infer_cdm_key(registry, name) ==
    IF registry = <<>> THEN PyNone
    ELSE IF AnyMatches(Head(registry).patterns, Normalize(name))
         THEN PyStr(Head(registry).key)
         ELSE infer_cdm_key(Tail(registry), name)

RegistryKeys(registry) == {registry[i].key : i \in 1..Len(registry)}

\* the key's list replaced instead of extended
add_custom_field_pattern_replace(registry, cdm_key, patterns) ==
    LET with_key == IF cdm_key \in RegistryKeys(registry)
                    THEN registry
                    ELSE Append(registry, [key |-> cdm_key, patterns |-> <<>>])
    IN  [i \in 1..Len(with_key) |->
            IF with_key[i].key = cdm_key
            THEN [key |-> cdm_key, patterns |-> patterns]
            ELSE with_key[i]]

\* a new key put before the keys already there
add_custom_field_pattern_front(registry, cdm_key, patterns) ==
    IF cdm_key \in RegistryKeys(registry)
    THEN [i \in 1..Len(registry) |->
            IF registry[i].key = cdm_key
            THEN [key |-> cdm_key, patterns |-> registry[i].patterns \o patterns]
            ELSE registry[i]]
    ELSE <<[key |-> cdm_key, patterns |-> patterns]>> \o registry

\* add_custom_field_pattern: create the key at the end when absent, then
\* extend its list
add_custom_field_pattern(registry, cdm_key, patterns) ==
    LET with_key == IF cdm_key \in RegistryKeys(registry)
                    THEN registry
                    ELSE Append(registry, [key |-> cdm_key, patterns |-> <<>>])
    IN  [i \in 1..Len(with_key) |->
            IF with_key[i].key = cdm_key
            THEN [key |-> cdm_key, patterns |-> with_key[i].patterns \o patterns]
            ELSE with_key[i]]

\* The registrations tried: the docstring's new key; a new key whose pattern
\* an earlier key also matches; an existing key given a pattern that a later
\* key matches; a new key with a pattern that has no anchors.
CustomAdds ==
    { [key |-> <<"patient", ".", "mrn">>,
       patterns |-> <<[anchored |-> TRUE,
                       alts |-> {<<"m","r","n">>, <<"m","e","d","i","c","a","l","r","e","c","o","r","d">>, <<"m","e","d","i","c","a","l","_","r","e","c","o","r","d">>}]>>],
      [key |-> <<"patient", ".", "name">>,
       patterns |-> <<[anchored |-> TRUE, alts |-> {<<"n","a","m","e">>}]>>],
      [key |-> <<"person", ".", "full_name">>,
       patterns |-> <<[anchored |-> TRUE, alts |-> {<<"c","i","t","y">>}]>>],
      [key |-> <<"custom", ".", "id">>,
       patterns |-> <<[anchored |-> FALSE, alts |-> {<<"s","s","n">>}]>>] }

\* the identifiers infer_cdm_key is called with
Identifiers ==
    { <<"f","i","r","s","t","_","n","a","m","e">>,
      <<"S","S","N">>,
      <<" ","F","i","r","s","t"," ","N","a","m","e"," ">>,
      <<"n","a","m","e">>,
      <<"c","i","t","y">>,
      <<"m","r","n">>,
      <<"c","u","s","t","o","m","_","f","i","e","l","d">>,
      <<"f","i","r","s","t"," "," ","n","a","m","e">>,
      <<"s","s","n","_","l","a","s","t","4">> }

InitRegistry ==
    /\ mode = "registry"
    /\ pc = "registry"
    /\ FIELD_PATTERNS = InitialPatterns
    /\ num_adds = 0
    /\ field_name = <<>>
    /\ inferred = PyNone
    /\ repeated = FALSE
    /\ OrchIdle
    /\ FillIdle
    /\ RestIdle

AddCustomFieldPattern ==
    /\ mode = "registry"
    /\ num_adds < MaxAdds
    /\ \E a \in CustomAdds :
         FIELD_PATTERNS' = add_custom_field_pattern(FIELD_PATTERNS, a.key, a.patterns)
    /\ num_adds' = num_adds + 1
    /\ pc' = "registry"
    /\ repeated' = FALSE
    /\ UNCHANGED <<mode, field_name, inferred>>
    /\ UNCHANGED <<doc, chunk_size, page_num, filtered_fields, chunk_idx, mappings,
                   outcomes, batches, all_mappings, fillVars, restVars>>

InferCdmKey ==
    /\ mode = "registry"
    /\ \E name \in Identifiers :
         /\ field_name' = name
         /\ inferred' = infer_cdm_key(FIELD_PATTERNS, name)
         \* the call repeats the one before it, on the same registry
         /\ repeated' = (pc = "inferred" /\ name = field_name)
    /\ pc' = "inferred"
    /\ UNCHANGED <<mode, FIELD_PATTERNS, num_adds>>
    /\ UNCHANGED <<doc, chunk_size, page_num, filtered_fields, chunk_idx, mappings,
                   outcomes, batches, all_mappings, fillVars, restVars>>

NextRegistry == AddCustomFieldPattern \/ InferCdmKey

SpecRegistry == InitRegistry /\ [][NextRegistry]_vars

\* the positions, in insertion order, of the keys with a matching pattern
MatchingKeys(registry, s) ==
    {i \in 1..Len(registry) : AnyMatches(registry[i].patterns, s)}

\* C10: infer_cdm_key returns the matching key that is first in insertion
\* order, and None exactly when no key has a matching pattern.
FirstKeyWins ==
    pc = "inferred" =>
        LET M == MatchingKeys(FIELD_PATTERNS, Normalize(field_name))
        IN  IF M = {}
            THEN inferred = PyNone
            ELSE /\ inferred # PyNone
                 /\ \E i \in M : /\ \A j \in M : i <= j
                                 /\ inferred = PyStr(FIELD_PATTERNS[i].key)

\* an identifier matched by an original key and by a key added later
\* resolved to the original key
EarlierKeyWon ==
    /\ pc = "inferred"
    /\ \E i, j \in MatchingKeys(FIELD_PATTERNS, Normalize(field_name)) :
         /\ i <= Len(InitialPatterns)
         /\ j > Len(InitialPatterns)
         /\ inferred = PyStr(FIELD_PATTERNS[i].key)

\* lower-cased, trimmed, and each run of whitespace made one space
RECURSIVE CollapseRuns(_)
CollapseRuns(s) ==
    IF s = <<>> THEN <<>>
    ELSE IF Head(s) \in Whitespace
         THEN IF Len(s) >= 2 /\ s[2] \in Whitespace
              THEN CollapseRuns(Tail(s))
              ELSE <<" ">> \o CollapseRuns(Tail(s))
         ELSE <<Head(s)>> \o CollapseRuns(Tail(s))

Canonical(s) == CollapseRuns(Strip(Lower(s)))

\* C11: identifiers that differ only in letter case, surrounding whitespace
\* or the length of their internal whitespace runs resolve to the same result.
WhitespaceCollapsed ==
    pc = "inferred" =>
        \A other \in Identifiers :
            Canonical(other) = Canonical(field_name)
                => infer_cdm_key(FIELD_PATTERNS, other) = inferred

\* the pattern spells the whole of s
FullMatches(pattern, s) ==
    \E a \in pattern.alts : Len(a) = Len(s) /\ Lower(a) = Lower(s)

\* C12: a key is returned only when one of its patterns matches the whole of
\* the normalized identifier.
FullMatchOnly ==
    (pc = "inferred" /\ inferred # PyNone) =>
        \E i \in 1..Len(FIELD_PATTERNS) :
            /\ inferred = PyStr(FIELD_PATTERNS[i].key)
            /\ \E j \in 1..Len(FIELD_PATTERNS[i].patterns) :
                 FullMatches(FIELD_PATTERNS[i].patterns[j], Normalize(field_name))

IsPrefix(s, t) == Len(s) <= Len(t) /\ SubSeq(t, 1, Len(s)) = s

\* C14: add_custom_field_pattern appends the patterns to the key's list,
\* creating the key at the end when it was absent, and leaves the other keys'
\* lists and the order of the keys as they were; no step removes a key or a
\* pattern.
RegistryOnlyGrows ==
    [][LET old == FIELD_PATTERNS
           new == FIELD_PATTERNS'
       IN  /\ Len(old) <= Len(new)
           /\ \A i \in 1..Len(old) :
                /\ new[i].key = old[i].key
                /\ IsPrefix(old[i].patterns, new[i].patterns)
           /\ num_adds' # num_adds =>
                \E a \in CustomAdds :
                    /\ \A i \in 1..Len(old) :
                         new[i].patterns =
                             IF old[i].key = a.key
                             THEN old[i].patterns \o a.patterns
                             ELSE old[i].patterns
                    /\ IF a.key \in RegistryKeys(old)
                       THEN Len(new) = Len(old)
                       ELSE /\ Len(new) = Len(old) + 1
                            /\ new[Len(new)] = [key |-> a.key, patterns |-> a.patterns]]_vars

\* a key has been created at the end and the first key's list extended
KeyAddedAndListExtended ==
    /\ mode = "registry"
    /\ Len(FIELD_PATTERNS) = Len(InitialPatterns) + 1
    /\ Len(FIELD_PATTERNS[1].patterns) = Len(InitialPatterns[1].patterns) + 1

\* the key an identifier resolved to is kept from one registry to the next
KeepsResolved(old, new) ==
    \A name \in Identifiers :
        infer_cdm_key(old, name) # PyNone =>
            infer_cdm_key(new, name) = infer_cdm_key(old, name)

\* every registration so far created a key
OnlyNewKeys == Len(FIELD_PATTERNS) = Len(InitialPatterns) + num_adds

\* C29: a registration under a key that was not in the registry leaves every
\* identifier that resolved to a key resolving to that key, so an identifier
\* changes only from unresolved to resolved; the same holds from the shipped
\* registry across any run of such registrations.
NewKeysKeepResolved ==
    /\ [](mode = "registry" /\ OnlyNewKeys => KeepsResolved(InitialPatterns, FIELD_PATTERNS))
    /\ [][(num_adds' # num_adds /\ Len(FIELD_PATTERNS') = Len(FIELD_PATTERNS) + 1) =>
            KeepsResolved(FIELD_PATTERNS, FIELD_PATTERNS')]_vars

\* after two registrations of new keys "ssn_last4", unresolved in the shipped
\* registry, has just resolved to the new key "custom.id", whose pattern also
\* matches "ssn", and "ssn" still resolves to "person.ssn"
NewKeyResolvedUnresolved ==
    /\ mode = "registry"
    /\ pc = "inferred"
    /\ num_adds = 2
    /\ OnlyNewKeys
    /\ field_name = <<"s","s","n","_","l","a","s","t","4">>
    /\ infer_cdm_key(InitialPatterns, field_name) = PyNone
    /\ inferred = PyStr(<<"custom", ".", "id">>)
    /\ AnyMatches(FIELD_PATTERNS[Len(FIELD_PATTERNS)].patterns, Normalize(<<"S","S","N">>))
    /\ infer_cdm_key(FIELD_PATTERNS, <<"S","S","N">>) = PyStr(person_ssn)

(* ===================== filter_noise_fields on its own ===================== *)

\* the longest list given to the filter
MaxRegions == 3

\* The field dicts tried: ids that are kept ("zip" has exactly three
\* characters, "row" differs from a denylist entry in case only), ids that
\* are dropped (too short, empty, a denylist entry, one containing an entry),
\* and a second field with a kept id at another position.
FilterFields ==
    { [field_id |-> <<"z","i","p">>, full_field_id |-> <<"z","i","p">>, x |-> 1, y |-> 1],
      [field_id |-> <<"z","i","p">>, full_field_id |-> <<"s","1",".","z","i","p">>, x |-> 2, y |-> 1],
      [field_id |-> <<"r","o","w">>, full_field_id |-> <<"r","o","w">>, x |-> 1, y |-> 1],
      [field_id |-> <<"c","i","t","y">>, full_field_id |-> <<"c","i","t","y">>, x |-> 1, y |-> 1],
      [field_id |-> <<"a","b">>, full_field_id |-> <<"a","b">>, x |-> 1, y |-> 1],
      [field_id |-> <<>>, full_field_id |-> <<>>, x |-> 1, y |-> 1],
      [field_id |-> <<"b","t","n">>, full_field_id |-> <<"b","t","n">>, x |-> 1, y |-> 1],
      [field_id |-> <<"z","i","p","R","o","w">>, full_field_id |-> <<"z","i","p","R","o","w">>,
       x |-> 1, y |-> 1] }

InitFilter ==
    /\ mode = "filter"
    /\ pc = "call"
    /\ region_list \in UNION {[1..n -> FilterFields] : n \in 0..MaxRegions}
    /\ filtered = <<>>
    /\ refiltered = <<>>
    /\ RunIdle
    /\ RenderIdle
    /\ AuxIdle
    /\ OrchIdle
    /\ FillIdle
    /\ RegistryIdle

FilterNoiseFields ==
    /\ mode = "filter"
    /\ pc = "call"
    /\ filtered' = filter_noise_fields(region_list)
    /\ pc' = "filtered"
    /\ UNCHANGED <<region_list, refiltered>>
    /\ UNCHANGED <<mode, doc, chunk_size, page_num, filtered_fields, chunk_idx, mappings,
                   outcomes, batches, all_mappings, fillVars, regVars, runVars, renderVars, auxVars>>

FilterAgain ==
    /\ mode = "filter"
    /\ pc = "filtered"
    /\ refiltered' = filter_noise_fields(filtered)
    /\ pc' = "refiltered"
    /\ UNCHANGED <<region_list, filtered>>
    /\ UNCHANGED <<mode, doc, chunk_size, page_num, filtered_fields, chunk_idx, mappings,
                   outcomes, batches, all_mappings, fillVars, regVars, runVars, renderVars, auxVars>>

NextFilter == FilterNoiseFields \/ FilterAgain

SpecFilter == InitFilter /\ [][NextFilter]_vars

\* C15: filtering the filtered list returns it unchanged.
FilterIdempotent ==
    pc = "refiltered" => refiltered = filtered

\* a list that lost a region and kept one has been filtered twice
FilteredTwice ==
    /\ pc = "refiltered"
    /\ filtered # <<>>
    /\ Len(filtered) < Len(region_list)

\* the positions of the regions whose id has three characters or more and
\* holds no denylist entry
KeptPositions(fields) ==
    {i \in 1..Len(fields) :
        /\ Len(fields[i].field_id) >= 3
        /\ \A k \in 1..Len(IGNORE_PATTERNS) :
               ~Contains(fields[i].field_id, IGNORE_PATTERNS[k])}

\* the j-th position of K, counted from 1 in increasing order
NthOf(K, j) == CHOOSE i \in K : Cardinality({k \in K : k < i}) = j - 1

\* C16: the filter returns exactly the regions whose id has at least three
\* characters and contains no denylist entry, unaltered and in their order.
FilterExact ==
    pc \in {"filtered", "refiltered"} =>
        LET K == KeptPositions(region_list)
        IN  /\ Len(filtered) = Cardinality(K)
            /\ \A j \in 1..Len(filtered) : filtered[j] = region_list[NthOf(K, j)]

\* of three regions the middle one was dropped, the others kept in order
MiddleDropped ==
    /\ pc = "filtered"
    /\ Len(region_list) = 3
    /\ KeptPositions(region_list) = {1, 3}
    /\ region_list[1] # region_list[3]
    /\ filtered = <<region_list[1], region_list[3]>>

(* ============================ whole runs ============================ *)

\* reader.get_fields(): the document's fields by name
pdf_fields == {w.name : w \in {v \in Items : doc[v] # 0}}

\* the CDM data of the runs: a key with a value and a key with a blank one
RunCdm ==
    [k \in cdm_schema |-> IF k = account_number THEN PyStr(<<"Jane">>) ELSE PyStr(<<" ">>)]

\* an exception that leaves the run
Raised == [t |-> "raised"]

\* the dict process_pdf_form_with_cdm returns, lines 134-140
Summary(total, mapped, filled) ==
    [t |-> "summary", total_fields |-> total, primary_mapped |-> mapped,
     fields_filled |-> filled, secondary_skipped |-> total - mapped]

InitRun ==
    /\ mode \in {"run", "static_run"}
    /\ doc \in [Items -> 0..MaxPages]
    /\ Cardinality({w \in Items : doc[w] # 0}) <= MaxFields
    /\ chunk_size \in 1..MaxChunk
    /\ pc = IF mode = "run" THEN "read" ELSE "page"
    /\ page_num = 0
    /\ filtered_fields = <<>>
    /\ chunk_idx = 0
    /\ mappings = EmptyDict
    /\ outcomes = <<>>
    /\ batches = <<>>
    /\ all_mappings = EmptyDict
    /\ field_to_cdm = EmptyDict
    /\ cdm = RunCdm
    /\ filled_data = EmptyDict
    /\ fill_mapping = EmptyDict
    /\ fetched = EmptyDict
    /\ pdf_ok \in BOOLEAN
    /\ output_written = FALSE
    /\ run_result = PyNone
    /\ RegistryIdle
    /\ FilterIdle
    /\ RenderIdle
    /\ AuxIdle

\* process_pdf_form_with_cdm, lines 73-85: read the fields or return None
ReadFields ==
    /\ mode = "run"
    /\ pc = "read"
    /\ IF ~pdf_ok \/ pdf_fields = {}
       THEN /\ run_result' = PyNone
            /\ pc' = "returned"
       ELSE /\ pc' = "page"
            /\ UNCHANGED run_result
    /\ UNCHANGED <<pdf_ok, output_written>>
    /\ UNCHANGED <<mode, doc, chunk_size, page_num, filtered_fields, chunk_idx, mappings,
                   outcomes, batches, all_mappings, fillVars, regVars, filterVars, renderVars, auxVars>>

\* process_pdf_form_with_cdm, lines 101-140: no Mapping, no result; else the
\* join, fill_acroform, and the summary unless fill_acroform raised
FillAndReturn ==
    /\ mode = "run"
    /\ pc = "done"
    /\ pc' = "returned"
    /\ field_to_cdm' = all_mappings
    /\ IF all_mappings = EmptyDict
       THEN /\ run_result' = PyNone
            /\ UNCHANGED <<filled_data, output_written>>
       ELSE \E filled_ok \in BOOLEAN :
              LET data == FillLoopResult(all_mappings, cdm)
              IN  /\ filled_data' = data
                  /\ output_written' = filled_ok
                  /\ run_result' =
                         IF filled_ok
                         THEN Summary(Cardinality(pdf_fields),
                                      Cardinality(DOMAIN all_mappings),
                                      Cardinality(DOMAIN data))
                         ELSE PyNone
    /\ UNCHANGED <<pdf_ok, cdm, fill_mapping, fetched>>
    /\ UNCHANGED <<mode, doc, chunk_size, page_num, filtered_fields, chunk_idx, mappings,
                   outcomes, batches, all_mappings, regVars, filterVars, renderVars, auxVars>>

\* process_static_pdf_with_cdm, lines 290-299
field_values(mapping, data) ==
    LET keys == {empty_fields[i].key_text : i \in 1..Len(empty_fields)}
        keep == {k \in keys : /\ k \in DOMAIN mapping
                               /\ Truthy(mapping[k])
                               /\ InDict(mapping[k], data)}
    IN  [k \in keep |-> data[mapping[k].s]]

\* process_static_pdf_with_cdm, lines 290-339: the join; fill_pdf_with_values
\* opens the document, which raises when it cannot be read, and saves the
\* output; the report divides by the number of fields
StaticFillAndReturn ==
    /\ mode = "static_run"
    /\ pc = "done"
    /\ pc' = "returned"
    /\ field_to_cdm' = all_mappings
    /\ LET data == field_values(all_mappings, cdm)
       IN  /\ filled_data' = data
           /\ output_written' = pdf_ok
           /\ run_result' =
                  IF ~pdf_ok \/ Len(empty_fields) = 0
                  THEN Raised
                  ELSE Summary(Len(empty_fields), Cardinality(DOMAIN all_mappings),
                               Cardinality(DOMAIN data))
    /\ UNCHANGED <<pdf_ok, cdm, fill_mapping, fetched>>
    /\ UNCHANGED <<mode, doc, chunk_size, page_num, filtered_fields, chunk_idx, mappings,
                   outcomes, batches, all_mappings, regVars, filterVars, renderVars, auxVars>>

NextRun ==
    \/ ReadFields
    \/ BeginPage
    \/ ProcessChunk
    \/ MergePage
    \/ Finish
    \/ FillAndReturn
    \/ StaticBeginPage
    \/ StaticMergePage
    \/ StaticFinish
    \/ StaticFillAndReturn

SpecRun == InitRun /\ [][NextRun]_vars

\* the document cannot be read or has no fillable region
ParseFailure == ~pdf_ok \/ \A w \in Items : doc[w] = 0

\* C18: on a document that cannot be read or has no fillable region the run
\* calls neither the classifier nor the renderer, writes no output, and
\* returns the failure to the caller.
ParseFailureAborts ==
    (mode \in {"run", "static_run"} /\ ParseFailure) =>
        /\ outcomes = <<>>
        /\ ~output_written
        /\ pc = "returned" => run_result.t \in {"none", "raised"}

\* the same for process_pdf_form_with_cdm alone
ParseFailureAbortsForm ==
    (mode = "run" /\ ParseFailure) =>
        /\ outcomes = <<>>
        /\ ~output_written
        /\ pc = "returned" => run_result = PyNone

\* C19: unless the document could not be parsed, process_pdf_form_with_cdm
\* returns the summary of counts.
AlwaysSummary ==
    (mode = "run" /\ pc = "returned" /\ ~ParseFailure) => run_result.t = "summary"

(* ======================== fill_pdf_with_values ======================== *)

\* the longest list of fields given to fill_pdf_with_values
MaxRender == 3

\* len(doc): the pages of the template
DocPages == 2

\* The fields tried.  "zip" has a value, "city" a blank one, "btn" none.  A
\* field is on a page of the document, on a page it does not have, or
\* carries no page; its box is positive or has no width.
RenderFields ==
    { [key_text |-> <<"z","i","p">>, page |-> 1, width |-> 1, height |-> 1],
      [key_text |-> <<"z","i","p">>, page |-> 0, width |-> 1, height |-> 1],
      [key_text |-> <<"z","i","p">>, page |-> 3, width |-> 1, height |-> 1],
      [key_text |-> <<"z","i","p">>, page |-> 2, width |-> 0, height |-> 1],
      [key_text |-> <<"c","i","t","y">>, page |-> 1, width |-> 1, height |-> 1],
      [key_text |-> <<"b","t","n">>, page |-> 1, width |-> 1, height |-> 1] }

\* field_values as handed to fill_pdf_with_values
RenderValues ==
    [k \in {<<"z","i","p">>, <<"c","i","t","y">>} |->
        IF k = <<"z","i","p">> THEN PyStr(<<"Jane">>) ELSE PyStr(<<" ">>)]

\* the exception of insert_text leaves the loop
render_field_abort(f, vals, insert_raises) ==
    IF f.key_text \notin DOMAIN vals THEN "skipped"
    ELSE IF ~Truthy(vals[f.key_text]) \/ Strip(StrOf(vals[f.key_text])) = <<>>
         THEN "skipped"
    ELSE IF (IF f.page = 0 THEN 1 ELSE f.page) - 1 >= DocPages THEN "failed"
    ELSE IF f.width <= 0 \/ f.height <= 0 THEN "failed"
    ELSE IF insert_raises THEN "raised"
    ELSE "filled"

\* a field on a page the document lacks is passed over without a count
render_field_uncounted(f, vals, insert_raises) ==
    IF f.key_text \notin DOMAIN vals THEN "skipped"
    ELSE IF ~Truthy(vals[f.key_text]) \/ Strip(StrOf(vals[f.key_text])) = <<>>
         THEN "skipped"
    ELSE IF (IF f.page = 0 THEN 1 ELSE f.page) - 1 >= DocPages THEN "passed"
    ELSE IF f.width <= 0 \/ f.height <= 0 THEN "failed"
    ELSE IF insert_raises THEN "failed"
    ELSE "filled"

\* one turn of the loop, lines 198-279: what becomes of the field
render_field(f, vals, insert_raises) ==
    IF f.key_text \notin DOMAIN vals THEN "skipped"
    ELSE IF ~Truthy(vals[f.key_text]) \/ Strip(StrOf(vals[f.key_text])) = <<>>
         THEN "skipped"
    ELSE IF (IF f.page = 0 THEN 1 ELSE f.page) - 1 >= DocPages THEN "failed"
    ELSE IF f.width <= 0 \/ f.height <= 0 THEN "failed"
    ELSE IF insert_raises THEN "failed"
    ELSE "filled"

InitRender ==
    /\ mode = "render"
    /\ pc = "render"
    /\ render_fields \in UNION {[1..n -> RenderFields] : n \in 0..MaxRender}
    /\ render_idx = 0
    /\ render_log = <<>>
    /\ filled_count = 0
    /\ skipped_count = 0
    /\ failed_count = 0
    /\ doc = [w \in Items |-> 0]
    /\ chunk_size = 1
    /\ page_num = 0
    /\ filtered_fields = <<>>
    /\ chunk_idx = 0
    /\ mappings = EmptyDict
    /\ outcomes = <<>>
    /\ batches = <<>>
    /\ all_mappings = EmptyDict
    /\ field_to_cdm = EmptyDict
    /\ cdm = EmptyDict
    /\ filled_data = RenderValues
    /\ fill_mapping = EmptyDict
    /\ fetched = EmptyDict
    /\ RegistryIdle
    /\ FilterIdle
    /\ RunIdle
    /\ AuxIdle

\* for field in empty_fields: one field
RenderField ==
    /\ mode = "render"
    /\ pc = "render"
    /\ render_idx < Len(render_fields)
    /\ \E insert_raises \in BOOLEAN :
         LET f  == render_fields[render_idx + 1]
             st == render_field(f, filled_data, insert_raises)
         IN  /\ render_log' = Append(render_log, [status |-> st, raised |-> insert_raises])
             /\ filled_count' = filled_count + (IF st = "filled" THEN 1 ELSE 0)
             /\ skipped_count' = skipped_count + (IF st = "skipped" THEN 1 ELSE 0)
             /\ failed_count' = failed_count + (IF st = "failed" THEN 1 ELSE 0)
             /\ IF st = "raised"
                THEN pc' = "raised" /\ UNCHANGED render_idx
                ELSE render_idx' = render_idx + 1 /\ UNCHANGED pc
    /\ UNCHANGED render_fields
    /\ UNCHANGED <<mode, doc, chunk_size, page_num, filtered_fields, chunk_idx, mappings,
                   outcomes, batches, all_mappings, fillVars, regVars, filterVars, runVars, auxVars>>

\* doc.save(output_pdf_path), lines 281-283
SaveOutput ==
    /\ mode = "render"
    /\ pc = "render"
    /\ render_idx = Len(render_fields)
    /\ output_written' = TRUE
    /\ pc' = "saved"
    /\ UNCHANGED <<pdf_ok, run_result, renderVars>>
    /\ UNCHANGED <<mode, doc, chunk_size, page_num, filtered_fields, chunk_idx, mappings,
                   outcomes, batches, all_mappings, fillVars, regVars, filterVars, auxVars>>

NextRender == RenderField \/ SaveOutput

SpecRender == InitRender /\ [][NextRender]_vars

\* the write of the i-th field fails: it has a value to write, and its page
\* is not in the document, its box is not positive, or insert_text raised
WriteFails(i) ==
    LET f == render_fields[i]
    IN  /\ f.key_text \in DOMAIN filled_data
        /\ ~IsBlankValue(filled_data[f.key_text])
        /\ \/ f.page > DocPages
           \/ f.width <= 0
           \/ f.height <= 0
           \/ render_log[i].raised

\* C20: a field whose write fails is counted as failed, the fields after it
\* are still processed, and the output is saved.
RenderFailureRecovered ==
    /\ pc # "raised"
    /\ Len(render_log) = render_idx
    /\ \A i \in 1..Len(render_log) : WriteFails(i) => render_log[i].status = "failed"
    /\ failed_count = Cardinality({i \in 1..Len(render_log) : WriteFails(i)})
    /\ pc = "saved" => (output_written /\ render_idx = Len(render_fields))

\* a failed write was followed by a successful one and the output was saved
FilledAfterFailure ==
    /\ pc = "saved"
    /\ \E i, j \in 1..Len(render_log) :
         /\ i < j
         /\ WriteFails(i)
         /\ render_log[i].raised
         /\ render_log[j].status = "filled"
    /\ failed_count >= 1
    /\ filled_count >= 1

(* =========================== llm_utils.py =========================== *)

\* A response text is a sequence of characters; the content of a JSON
\* string may hold a schema key's atoms.  json.loads is modelled for JSON
\* objects, strings and null.
Quote == "\""

JsonObject(d) == [t |-> "object", d |-> d]

JsonFail == [ok |-> FALSE, value |-> PyNone, next |-> 0]

\* the whitespace json.loads skips between tokens
RECURSIVE SkipWs(_, _)
SkipWs(t, i) ==
    IF i <= Len(t) /\ t[i] \in {" ", "\t", "\n", "\r"} THEN SkipWs(t, i + 1) ELSE i

\* the string whose content starts at i, up to the next quote; it may
\* hold no control character
scanstring(t, i) ==
    LET closes == {j \in i..Len(t) : t[j] = Quote}
    IN  IF closes = {} THEN JsonFail
        ELSE LET j == CHOOSE c \in closes : \A d \in closes : c <= d
             IN  IF \E k \in i..(j - 1) : t[k] \in {"\t", "\n", "\r"}
                 THEN JsonFail
                 ELSE [ok |-> TRUE, value |-> PyStr(SubSeq(t, i, j - 1)), next |-> j + 1]

RECURSIVE parse_value(_, _)
RECURSIVE parse_pairs(_, _, _)

\* the pairs of an object from the quote at j on, up to its closing brace
parse_pairs(t, j, acc) ==
    IF j > Len(t) \/ t[j] # Quote THEN JsonFail
    ELSE LET key == scanstring(t, j + 1)
         IN  IF ~key.ok THEN JsonFail
             ELSE LET colon == SkipWs(t, key.next)
                  IN  IF colon > Len(t) \/ t[colon] # ":" THEN JsonFail
                      ELSE LET v == parse_value(t, SkipWs(t, colon + 1))
                           IN  IF ~v.ok THEN JsonFail
                               ELSE LET acc2 == Update(acc, [k \in {key.value.s} |-> v.value])
                                        sep  == SkipWs(t, v.next)
                                    IN  IF sep > Len(t) THEN JsonFail
                                        ELSE IF t[sep] = "}"
                                        THEN [ok |-> TRUE, value |-> JsonObject(acc2),
                                              next |-> sep + 1]
                                        ELSE IF t[sep] = ","
                                        THEN parse_pairs(t, SkipWs(t, sep + 1), acc2)
                                        ELSE JsonFail

\* the value that starts at i
parse_value(t, i) ==
    IF i > Len(t) THEN JsonFail
    ELSE IF t[i] = Quote THEN scanstring(t, i + 1)
    ELSE IF t[i] = "{"
    THEN LET j == SkipWs(t, i + 1)
         IN  IF j <= Len(t) /\ t[j] = "}"
             THEN [ok |-> TRUE, value |-> JsonObject(EmptyDict), next |-> j + 1]
             ELSE parse_pairs(t, j, EmptyDict)
    ELSE IF i + 3 <= Len(t) /\ SubSeq(t, i, i + 3) = <<"n", "u", "l", "l">>
    THEN [ok |-> TRUE, value |-> PyNone, next |-> i + 4]
    ELSE JsonFail

\* json.loads(text): one value, with nothing but whitespace around it
json_loads(text) ==
    LET v == parse_value(text, SkipWs(text, 1))
    IN  IF ~v.ok THEN JsonFail
        ELSE IF SkipWs(text, v.next) <= Len(text) THEN JsonFail
        ELSE v

\* re.sub(r'[\n\r]+', '', text)
RECURSIVE RemoveLineBreaks(_)
RemoveLineBreaks(text) ==
    IF text = <<>> THEN <<>>
    ELSE IF Head(text) \in {"\n", "\r"} THEN RemoveLineBreaks(Tail(text))
    ELSE <<Head(text)>> \o RemoveLineBreaks(Tail(text))

\* the same with the repaired text's value dropped
safe_json_parse_norepair(text) ==
    LET first == json_loads(text)
    IN  IF first.ok THEN [raised |-> FALSE, value |-> first.value, repairs |-> 0]
        ELSE [raised |-> FALSE, value |-> JsonObject(EmptyDict), repairs |-> 1]

\* safe_json_parse: the value, and how many repaired texts were parsed
safe_json_parse(text) ==
    LET first == json_loads(text)
    IN  IF first.ok THEN [raised |-> FALSE, value |-> first.value, repairs |-> 0]
        ELSE LET stripped == Strip(RemoveLineBreaks(text))
                 repaired ==
                     IF stripped = <<>> \/ stripped[Len(stripped)] # "}"
                     THEN Append(stripped, "}")
                     ELSE stripped
                 second == json_loads(repaired)
             IN  IF second.ok
                 THEN [raised |-> FALSE, value |-> second.value, repairs |-> 1]
                 ELSE [raised |-> FALSE, value |-> JsonObject(EmptyDict), repairs |-> 1]

\* map_fields_to_cdm, step 1: the alias table, in the order of the dict
aliases ==
    << [a |-> <<"N","a","m","e","A","c","c","o","u","n","t","H","o","l","d","e","r">>,
        cdm_key |-> <<"person", ".", "first_name">>],
       [a |-> <<"A","c","c","o","u","n","t","H","o","l","d","e","r","s","N","a","m">>,
        cdm_key |-> <<"person", ".", "last_name">>],
       [a |-> <<"S","o","c","i","a","l","S","e","c","u","r","i","t","y","N","u","m","b">>,
        cdm_key |-> <<"person", ".", "ssn">>],
       [a |-> <<"A","d","d","r","e","s","s">>,
        cdm_key |-> <<"person", ".", "address">>],
       [a |-> <<"A","c","c","o","u","n","t","N","u","m","b","e","r">>,
        cdm_key |-> <<"account", ".", "number">>],
       [a |-> <<"C","i","t","y">>,
        cdm_key |-> <<"person", ".", "city">>],
       [a |-> <<"S","t","a","t","e">>,
        cdm_key |-> <<"person", ".", "state">>],
       [a |-> <<"Z","i","p","C","o","d","e">>,
        cdm_key |-> <<"person", ".", "zip">>],
       [a |-> <<"B","a","n","k","N","a","m","e">>,
        cdm_key |-> <<"bank", ".", "name">>],
       [a |-> <<"B","a","n","k","a","c","c","o","u","n","t","N","u","m","b","e","r">>,
        cdm_key |-> <<"account", ".", "number">>] >>

\* lines 77-80: every alias found in the field name sets the field's key,
\* so the last alias found stays
RECURSIVE AliasKeys(_, _, _)
AliasKeys(mapping, field, i) ==
    IF i > Len(aliases) THEN mapping
    ELSE AliasKeys(IF Contains(Lower(field), Lower(aliases[i].a))
                   THEN Update(mapping, [k \in {field} |-> PyStr(aliases[i].cdm_key)])
                   ELSE mapping,
                   field, i + 1)

RECURSIVE AliasFallback(_, _)
AliasFallback(mapping, names) ==
    IF names = <<>> THEN mapping
    ELSE AliasFallback(AliasKeys(mapping, Head(names), 1), Tail(names))

\* unmapped = [f for f in empty_fields if f not in mapping]
Unmapped(names, mapping) == SelectSeq(names, LAMBDA f : f \notin DOMAIN mapping)

\* the field names tried: one that holds an alias, two that hold none
LlmFieldNames == { <<"C","i","t","y">>, <<"z","i","p">>, <<"d","o","b">> }

\* {"<f>":"account.number"}
ObjectText(f) ==
    <<"{", Quote>> \o f \o <<Quote, ":", Quote>> \o account_number \o <<Quote, "}">>

\* The response texts tried for a batch whose first field is f: the object;
\* the object with a line break between tokens; with its closing brace cut
\* off; with a line break inside the key string; with both and blanks at the
\* end; cut off inside the string; with a brace too many; preceded by prose;
\* a nested object that lacks its outer brace; the empty text; a bare string.
ResponseTexts(f) ==
    LET whole  == ObjectText(f)
        n      == Len(whole)
        broken == <<"{", Quote>> \o f \o <<Quote, ":", Quote, "account", "\n", ".",
                                          "number", Quote>>
    IN  { whole,
          <<"{", "\n">> \o Tail(whole),
          SubSeq(whole, 1, n - 1),
          Append(broken, "}"),
          broken \o <<" ", "\r", "\n">>,
          SubSeq(whole, 1, n - 3),
          Append(whole, "}"),
          <<"o", "k", ":">> \o whole,
          <<"{", Quote>> \o f \o <<Quote, ":">> \o ObjectText(<<"c","d","m","_","k","e","y">>),
          <<>>,
          <<Quote>> \o f \o <<Quote>> }

\* One call of call_llm_for_mapping: the request raises, or the response
\* holds one of the texts.
LlmResponses(chunk) ==
    {[raised |-> TRUE, text |-> <<>>]} \cup
    {[raised |-> FALSE, text |-> t] : t \in ResponseTexts(Head(chunk))}

\* mapping.update(chunk_mapping): a dict's entries are taken; the empty
\* string has nothing to take; any other value raises
UpdateWithParsed(mapping, value) ==
    CASE value.t = "object" -> [raised |-> FALSE, value |-> Update(mapping, value.d)]
      [] value = PyStr(<<>>) -> [raised |-> FALSE, value |-> mapping]
      [] OTHER -> [raised |-> TRUE, value |-> mapping]

InitLlmUtils ==
    /\ mode = "llm_utils"
    /\ pc = "call"
    /\ doc = [w \in Items |-> 0]
    \* the code passes 40 to chunk_list; the batch length is drawn here so
    \* that a list of a few names spans several batches
    /\ chunk_size \in 1..MaxChunk
    /\ page_num = 0
    \* empty_fields, as given
    /\ filtered_fields \in UNION {[1..n -> LlmFieldNames] : n \in 0..MaxFields}
    /\ chunk_idx = 0
    /\ mappings = EmptyDict
    /\ outcomes = <<>>
    /\ batches = <<>>
    /\ all_mappings = EmptyDict
    /\ FillIdle
    /\ RegistryIdle
    /\ RestIdle

\* mapping = {}; the alias fallback; unmapped; the generator starts
MapFieldsBegin ==
    /\ mode = "llm_utils"
    /\ pc = "call"
    /\ LET mapping == AliasFallback(EmptyDict, filtered_fields)
       IN  /\ mappings' = mapping
           /\ filtered_fields' = Unmapped(filtered_fields, mapping)
    /\ chunk_idx' = 0
    /\ pc' = "chunk"
    /\ UNCHANGED <<mode, doc, chunk_size, page_num, outcomes, batches, all_mappings>>
    /\ UNCHANGED <<fillVars, regVars, restVars>>

\* one turn of the loop over chunk_list(unmapped, n)
MapFieldsChunk ==
    /\ mode = "llm_utils"
    /\ pc = "chunk"
    /\ chunk_idx < Len(filtered_fields)
    /\ LET chunk == ChunkAt(filtered_fields, chunk_idx, chunk_size)
       IN  \E response \in LlmResponses(chunk) :
             LET parsed == IF response.raised
                           THEN [raised |-> TRUE, value |-> PyNone, repairs |-> 0]
                           ELSE safe_json_parse(response.text)
                 merged == IF parsed.raised
                           THEN [raised |-> TRUE, value |-> mappings]
                           ELSE UpdateWithParsed(mappings, parsed.value)
             IN  /\ outcomes' = Append(outcomes, [raised |-> response.raised,
                                                  text   |-> response.text,
                                                  parsed |-> parsed])
                 /\ batches' = Append(batches, chunk)
                 /\ IF merged.raised
                    THEN /\ pc' = "raised"
                         /\ UNCHANGED <<mappings, chunk_idx>>
                    ELSE /\ mappings' = merged.value
                         /\ chunk_idx' = chunk_idx + chunk_size
                         /\ UNCHANGED pc
    /\ UNCHANGED <<mode, doc, chunk_size, page_num, filtered_fields, all_mappings>>
    /\ UNCHANGED <<fillVars, regVars, restVars>>

\* the mapping is cached and returned
MapFieldsReturn ==
    /\ mode = "llm_utils"
    /\ pc = "chunk"
    /\ chunk_idx >= Len(filtered_fields)
    /\ all_mappings' = mappings
    /\ pc' = "done"
    /\ UNCHANGED <<mode, doc, chunk_size, page_num, filtered_fields, chunk_idx,
                   mappings, outcomes, batches>>
    /\ UNCHANGED <<fillVars, regVars, restVars>>

NextLlmUtils == MapFieldsBegin \/ MapFieldsChunk \/ MapFieldsReturn

SpecLlmUtils == InitLlmUtils /\ [][NextLlmUtils]_vars

\* the text with its line breaks removed, trimmed, and closed with a brace
\* when it does not end in one
ClosedText(text) ==
    LET kept == Strip(SelectSeq(text, LAMBDA c : c \notin {"\n", "\r"}))
    IN  IF kept # <<>> /\ kept[Len(kept)] = "}" THEN kept ELSE kept \o <<"}">>

\* the i-th response came back and its text is not JSON
Malformed(i) == ~outcomes[i].raised /\ ~json_loads(outcomes[i].text).ok

\* C21: a response text that is not JSON gets one repair attempt; the batch's
\* result is the repaired text's value when that parses and the empty
\* mapping otherwise, nothing is raised, and the remaining batches are
\* still processed.
MalformedRecovered ==
    /\ \A i \in 1..Len(outcomes) :
         Malformed(i) =>
           LET second == json_loads(ClosedText(outcomes[i].text))
           IN  /\ outcomes[i].parsed.repairs = 1
               /\ ~outcomes[i].parsed.raised
               /\ outcomes[i].parsed.value =
                     IF second.ok THEN second.value ELSE JsonObject(EmptyDict)
               /\ i = Len(outcomes) => pc # "raised"
    /\ pc = "done" => Len(outcomes) = CeilDiv(Len(filtered_fields), chunk_size)

\* a text that could not be repaired was followed by one that could, whose
\* key reached the returned mapping
RepairedAfterUnrepaired ==
    /\ pc = "done"
    /\ \E i, j \in 1..Len(outcomes) :
         /\ i < j
         /\ Malformed(i)
         /\ outcomes[i].parsed.value = JsonObject(EmptyDict)
         /\ Malformed(j)
         /\ outcomes[j].parsed.value # JsonObject(EmptyDict)
         /\ \E k \in DOMAIN outcomes[j].parsed.value.d : k \in DOMAIN all_mappings

(* ==================== the fast path and the classifier ==================== *)

\* the field's short id resolves in the registry the module starts with
ResolvedByRegistry(field) == infer_cdm_key(InitialPatterns, field.field_id) # PyNone

\* C23: key inference is tried on a region before the region is sent to the
\* classifier, so no batch of process_pdf_form holds a region whose
\* identifier the registry resolves.
FastPathBeforeOracle ==
    mode = "form" =>
        \A b \in 1..Len(batches) : \A i \in 1..Len(batches[b]) :
            ~ResolvedByRegistry(batches[b][i])

(* ======================= Spatial Label Resolver ======================= *)

\* The resolver is described in the specification's section 4.3; the
\* sources hold only the consumer of its result (the field_labels argument
\* of map_fields_to_cdm_direct).  Rectangles are <<x0, y0, x1, y1>> records
\* in whole units with y growing downwards; texts are character sequences.

\* text runs given to one call
MaxRuns == 2

\* "horizontally aligned within a small tolerance (about 50 units)"
H_TOLERANCE == 50

\* "vertically aligned within a tight tolerance (about 20 units)"
V_TOLERANCE == 20

\* "drop text over about 100 characters"
MAX_LABEL_LEN == 100

Rect(x0, y0, x1, y1) == [x0 |-> x0, y0 |-> y0, x1 |-> x1, y1 |-> y1]

Abs(n) == IF n < 0 THEN -n ELSE n

\* twice the centre, to stay in whole numbers
Center2(rect) == [x |-> rect.x0 + rect.x1, y |-> rect.y0 + rect.y1]

\* the square of twice the Euclidean distance between the centres
Dist2(r1, r2) ==
    LET a == Center2(r1)
        b == Center2(r2)
    IN  (a.x - b.x) * (a.x - b.x) + (a.y - b.y) * (a.y - b.y)

Above(run, reg) == run.rect.y1 < reg.rect.y0

LeftOf(run, reg) == run.rect.x1 < reg.rect.x0

HAligned(run, reg) == Abs(run.rect.x0 - reg.rect.x0) <= H_TOLERANCE

VAligned(run, reg) ==
    Abs(Center2(run.rect).y - Center2(reg.rect).y) <= 2 * V_TOLERANCE

\* the four predicates in their order; 5 is below or to the right
Priority(run, reg) ==
    CASE Above(run, reg) /\ HAligned(run, reg)  -> 1
      [] LeftOf(run, reg) /\ VAligned(run, reg) -> 2
      [] Above(run, reg)                        -> 3
      [] LeftOf(run, reg)                       -> 4
      [] OTHER                                  -> 5

\* runs of whitespace become one blank
CollapseWhitespace(s) ==
    LET marked == [i \in 1..Len(s) |->
                     [c    |-> IF s[i] \in Whitespace THEN " " ELSE s[i],
                      tail |-> i > 1 /\ s[i] \in Whitespace /\ s[i - 1] \in Whitespace]]
        kept   == SelectSeq(marked, LAMBDA p : ~p.tail)
    IN  [i \in 1..Len(kept) |-> kept[i].c]

RECURSIVE StripTrailingMarks(_)
StripTrailingMarks(s) ==
    IF s # <<>> /\ s[Len(s)] \in {":", "*"}
    THEN StripTrailingMarks(SubSeq(s, 1, Len(s) - 1))
    ELSE s

InstructionVerbs ==
    { <<"p","l","e","a","s","e">>,
      <<"c","l","i","c","k">>,
      <<"e","n","t","e","r">>,
      <<"s","e","l","e","c","t">>,
      <<"c","h","e","c","k">> }

\* the cleaned text, or None for a text that is too long or an instruction
CleanLabel(text) ==
    LET cleaned == Strip(StripTrailingMarks(CollapseWhitespace(text)))
    IN  IF Len(cleaned) > MAX_LABEL_LEN THEN PyNone
        ELSE IF \E v \in InstructionVerbs :
                    Len(v) <= Len(cleaned) /\ SubSeq(Lower(cleaned), 1, Len(v)) = v
             THEN PyNone
        ELSE PyStr(cleaned)

\* a run that can be the label of the region
IsCandidate(run, reg, radius) ==
    /\ run.page = reg.page
    /\ Dist2(run.rect, reg.rect) <= 4 * radius * radius
    /\ CleanLabel(run.text) # PyNone

\* the nearest candidate, whatever its direction
resolveLabel_nearest(reg, runs, radius) ==
    LET cands == {i \in 1..Len(runs) : IsCandidate(runs[i], reg, radius)}
    IN  IF cands = {} THEN PyNone
        ELSE CleanLabel(runs[CHOOSE i \in cands : \A j \in cands :
                 \/ Dist2(runs[i].rect, reg.rect) < Dist2(runs[j].rect, reg.rect)
                 \/ /\ Dist2(runs[i].rect, reg.rect) = Dist2(runs[j].rect, reg.rect)
                    /\ i <= j].text)

\* run a is a better label than run b
Better(a, b, reg) ==
    \/ Priority(a, reg) < Priority(b, reg)
    \/ /\ Priority(a, reg) = Priority(b, reg)
       /\ Dist2(a.rect, reg.rect) < Dist2(b.rect, reg.rect)

\* the best candidate seen so far, taken through the runs in order
RECURSIVE BestRun(_, _, _, _, _)
BestRun(reg, runs, radius, i, best) ==
    IF i > Len(runs) THEN best
    ELSE IF IsCandidate(runs[i], reg, radius)
            /\ (best = 0 \/ Better(runs[i], runs[best], reg))
    THEN BestRun(reg, runs, radius, i + 1, i)
    ELSE BestRun(reg, runs, radius, i + 1, best)

\* resolveLabel(region, textRuns, searchRadius)
resolveLabel(reg, runs, radius) ==
    LET best == BestRun(reg, runs, radius, 1, 0)
    IN  IF best = 0 THEN PyNone ELSE CleanLabel(runs[best].text)

\* the region of the specification's scenario, in hundredths
ScenarioRegion == [rect |-> Rect(50, 30, 70, 33), page |-> 1]

\* the run of the scenario
ScenarioRun ==
    [text |-> <<"L","a","s","t"," ","N","a","m","e",":">>,
     rect |-> Rect(50, 26, 60, 29), page |-> 1]

Regions == { ScenarioRegion, [rect |-> Rect(80, 60, 95, 63), page |-> 1] }

\* The runs tried: the scenario's; one further above; one to the left with
\* a trailing asterisk; one above and far to the left; one to the left and
\* lower; one below; an instruction just above; a text of 101 characters;
\* a run on another page.
TextRuns ==
    { ScenarioRun,
      [text |-> <<"F","i","r","s","t">>, rect |-> Rect(50, 20, 60, 23), page |-> 1],
      [text |-> <<"S","S","N"," "," ","*">>, rect |-> Rect(40, 30, 48, 33), page |-> 1],
      [text |-> <<"F","a","r">>, rect |-> Rect(10, 50, 25, 53), page |-> 1],
      [text |-> <<"L","o","w">>, rect |-> Rect(10, 90, 30, 93), page |-> 1],
      [text |-> <<"B","e","l","o","w">>, rect |-> Rect(55, 34, 65, 37), page |-> 1],
      [text |-> <<"P","l","e","a","s","e"," ","e","n","t","e","r">>, rect |-> Rect(50, 27, 60, 29), page |-> 1],
      [text |-> [i \in 1..(MAX_LABEL_LEN + 1) |-> "x"], rect |-> Rect(50, 25, 60, 28),
       page |-> 1],
      [text |-> <<"O","t","h","e","r">>, rect |-> Rect(50, 26, 60, 29), page |-> 2] }

InitLabel ==
    /\ mode = "label"
    /\ pc = "call"
    /\ region \in Regions
    /\ text_runs \in UNION {[1..n -> TextRuns] : n \in 0..MaxRuns}
    /\ search_radius \in {7, 40, 150}
    /\ label = PyNone
    /\ RecordIdle
    /\ null_like = PyNone
    /\ FilterIdle
    /\ RunIdle
    /\ RenderIdle
    /\ OrchIdle
    /\ FillIdle
    /\ RegistryIdle

ResolveLabel ==
    /\ mode = "label"
    /\ pc = "call"
    /\ label' = resolveLabel(region, text_runs, search_radius)
    /\ pc' = "resolved"
    /\ UNCHANGED <<region, text_runs, search_radius, recordVars, null_like>>
    /\ UNCHANGED <<mode, doc, chunk_size, page_num, filtered_fields, chunk_idx, mappings,
                   outcomes, batches, all_mappings, fillVars, regVars, filterVars,
                   runVars, renderVars>>

SpecLabel == InitLabel /\ [][ResolveLabel]_vars

\* the runs of the call that can be the region's label
Candidates == {i \in 1..Len(text_runs) : IsCandidate(text_runs[i], region, search_radius)}

\* C24: resolveLabel returns none when no run on the region's page lies
\* within searchRadius; otherwise it returns the cleaned text of a candidate
\* that no candidate beats in directional priority, and that is nearest
\* among the candidates of its priority.  The scenario's region with the
\* run "Last Name:" above it resolves to "Last Name".
BestLabelChosen ==
    pc = "resolved" =>
        /\ Candidates = {} <=> label = PyNone
        /\ Candidates # {} =>
             \E w \in Candidates :
                /\ label = CleanLabel(text_runs[w].text)
                /\ \A c \in Candidates :
                      /\ Priority(text_runs[w], region) <= Priority(text_runs[c], region)
                      /\ Priority(text_runs[w], region) = Priority(text_runs[c], region)
                            => Dist2(text_runs[w].rect, region.rect)
                                  <= Dist2(text_runs[c].rect, region.rect)
        /\ (region = ScenarioRegion /\ text_runs = <<ScenarioRun>>)
              => label = PyStr(<<"L","a","s","t"," ","N","a","m","e">>)

\* the scenario's run won against a nearer run of lower priority
AlignedAboveBeatsNearer ==
    /\ pc = "resolved"
    /\ region = ScenarioRegion
    /\ label = PyStr(<<"L","a","s","t"," ","N","a","m","e">>)
    /\ \E c \in Candidates :
          /\ Priority(text_runs[c], region) > 1
          /\ Dist2(text_runs[c].rect, region.rect) < Dist2(ScenarioRun.rect, region.rect)

(* ====================== null-like response entries ====================== *)

\* process_pdf_form with a classifier that answers a key or one null-like
\* value
InitNullLike ==
    /\ mode = "form_null"
    /\ null_like \in NullLikeData
    /\ doc \in [Items -> 0..MaxPages]
    /\ Cardinality({w \in Items : doc[w] # 0}) <= MaxFields
    /\ chunk_size \in 1..MaxChunk
    /\ pc = "page"
    /\ page_num = 0
    /\ filtered_fields = <<>>
    /\ chunk_idx = 0
    /\ mappings = EmptyDict
    /\ outcomes = <<>>
    /\ batches = <<>>
    /\ all_mappings = EmptyDict
    /\ FillIdle
    /\ RegistryIdle
    /\ FilterIdle
    /\ RunIdle
    /\ RenderIdle
    /\ LabelIdle
    /\ RecordIdle

NextNullLike == BeginPage \/ ProcessChunk \/ MergePage \/ Finish

SpecNullLike == InitNullLike /\ [][NextNullLike]_vars

\* the entry is absent or says "no key"
IsNullLike(outcome, id) ==
    \/ outcome.raised
    \/ id \notin DOMAIN outcome.result
    \/ outcome.result[id] \in NullLikeData

\* no response of the page holds a key for the short id
OnlyNullLike(id) == \A i \in 1..Len(outcomes) : IsNullLike(outcomes[i], id)

\* C25: when the page's responses hold, for a short id, no entry or only
\* null-like ones, storing the page's keys writes no Mapping entry for any
\* region of the page with that short id.
NullLikeNeverMapped ==
    [][(pc = "chunk" /\ pc' = "page") =>
         \A i \in 1..Len(filtered_fields) :
            LET f == filtered_fields[i]
            IN  OnlyNullLike(f.field_id) =>
                  /\ f.full_field_id \in DOMAIN all_mappings'
                        => f.full_field_id \in DOMAIN all_mappings
                  /\ f.full_field_id \in DOMAIN all_mappings
                        => all_mappings'[f.full_field_id] = all_mappings[f.full_field_id]]_vars

\* a page was stored whose response held a blank string for one field
\* and a key for another: only the other is in the Mapping
NullLikeEntryStored ==
    /\ mode = "form_null"
    /\ null_like = PyStr(<<" ">>)
    /\ pc = "page"
    /\ \E i, j \in 1..Len(filtered_fields) : \E o \in 1..Len(outcomes) :
         LET f == filtered_fields[i]
             g == filtered_fields[j]
         IN  /\ ~outcomes[o].raised
             /\ f.field_id \in DOMAIN outcomes[o].result
             /\ outcomes[o].result[f.field_id] \in NullLikeData
             /\ OnlyNullLike(f.field_id)
             /\ f.full_field_id \notin DOMAIN all_mappings
             /\ g.full_field_id \in DOMAIN all_mappings

(* ======================= build_cdm_from_record ======================= *)

\* fields of a record
MaxRecord == 2

\* value is None or (isinstance(value, str) and not value.strip())
IsSkippedValue(value) ==
    value = PyNone \/ (IsStr(value) /\ Strip(value.s) = <<>>)

\* the key of a field and whether inference was asked for it (lines 147-152)
RecordKey(item, fm) ==
    IF item.name \in DOMAIN fm
    THEN [cdm_key |-> fm[item.name], asked |-> FALSE]
    ELSE [cdm_key |-> infer_cdm_key(InitialPatterns, item.name), asked |-> TRUE]

\* a loop that keeps the first value of a key
RECURSIVE build_cdm_keep_first(_, _, _)
build_cdm_keep_first(rec, fm, acc) ==
    IF rec = <<>> THEN acc
    ELSE IF IsSkippedValue(Head(rec).value)
    THEN build_cdm_keep_first(Tail(rec), fm, acc)
    ELSE LET k == RecordKey(Head(rec), fm)
             asked == IF k.asked THEN acc.asked \cup {Head(rec).name} ELSE acc.asked
         IN  build_cdm_keep_first(Tail(rec), fm,
                 [cdm   |-> IF Truthy(k.cdm_key) /\ k.cdm_key.s \notin DOMAIN acc.cdm
                            THEN Update(acc.cdm, [c \in {k.cdm_key.s} |-> Head(rec).value])
                            ELSE acc.cdm,
                  asked |-> asked])

\* the loop over record.items(): the CDM so far and the names inferred
RECURSIVE build_cdm_from_record(_, _, _)
build_cdm_from_record(rec, fm, acc) ==
    IF rec = <<>> THEN acc
    ELSE IF IsSkippedValue(Head(rec).value)
    THEN build_cdm_from_record(Tail(rec), fm, acc)
    ELSE LET k == RecordKey(Head(rec), fm)
             asked == IF k.asked THEN acc.asked \cup {Head(rec).name} ELSE acc.asked
         IN  build_cdm_from_record(Tail(rec), fm,
                 [cdm   |-> IF Truthy(k.cdm_key)
                            THEN Update(acc.cdm, [c \in {k.cdm_key.s} |-> Head(rec).value])
                            ELSE acc.cdm,
                  asked |-> asked])

\* The field names tried: two that the registry resolves to the same key,
\* one it resolves to another key, one it does not resolve.
RecordNames ==
    { <<"f","n","a","m","e">>,
      <<"f","i","r","s","t","_","n","a","m","e">>,
      <<"s","s","n">>,
      <<"x","y","z">> }

RecordValues ==
    { PyNone, PyStr(<<>>), PyStr(<<" ">>), PyStr(<<"Jane">>), PyStr(<<"Doe">>), PyInt(0) }

\* The custom mappings tried: none; a resolvable name given another key; an
\* unresolvable name given a key; a resolvable name given an empty key.
FieldMappings ==
    { EmptyDict,
      [n \in {<<"f","n","a","m","e">>} |-> PyStr(<<"person", ".", "ssn">>)],
      [n \in {<<"x","y","z">>} |-> PyStr(<<"person", ".", "first_name">>)],
      [n \in {<<"s","s","n">>} |-> PyStr(<<>>)] }

InitRecord ==
    /\ mode = "record"
    /\ pc = "call"
    /\ record \in UNION {[1..n -> [name : RecordNames, value : RecordValues]] :
                            n \in 0..MaxRecord}
    \* a dict holds a field name once
    /\ \A i, j \in 1..Len(record) : record[i].name = record[j].name => i = j
    /\ field_mapping \in FieldMappings
    /\ record_cdm = EmptyDict
    /\ inferred_names = {}
    /\ LabelIdle
    /\ null_like = PyNone
    /\ FilterIdle
    /\ RunIdle
    /\ RenderIdle
    /\ OrchIdle
    /\ FillIdle
    /\ RegistryIdle

BuildCdmFromRecord ==
    /\ mode = "record"
    /\ pc = "call"
    /\ LET built == build_cdm_from_record(record, field_mapping,
                                          [cdm |-> EmptyDict, asked |-> {}])
       IN  /\ record_cdm' = built.cdm
           /\ inferred_names' = built.asked
    /\ pc' = "built"
    /\ UNCHANGED <<record, field_mapping, labelVars, null_like>>
    /\ UNCHANGED <<mode, doc, chunk_size, page_num, filtered_fields, chunk_idx, mappings,
                   outcomes, batches, all_mappings, fillVars, regVars, filterVars,
                   runVars, renderVars>>

SpecRecord == InitRecord /\ [][BuildCdmFromRecord]_vars

\* the fields that contribute to key k: not skipped, and resolved to k by
\* the custom mapping when it names the field, by the registry otherwise
Contributors(k) ==
    {i \in 1..Len(record) :
        /\ ~IsSkippedValue(record[i].value)
        /\ LET key == IF record[i].name \in DOMAIN field_mapping
                      THEN field_mapping[record[i].name]
                      ELSE infer_cdm_key(InitialPatterns, record[i].name)
           IN  key = PyStr(k) /\ k # <<>>}

PossibleKeys ==
    {field_mapping[n].s : n \in DOMAIN field_mapping} \cup
    {InitialPatterns[i].key : i \in 1..Len(InitialPatterns)}

\* C26: a field whose value is None or blank contributes nothing, so no
\* string of the CDM is blank; a field the custom mapping names takes the
\* custom key and is not given to inference; and a key's value is that of
\* the last field in record order that resolves to it.
RecordCdmBuilt ==
    pc = "built" =>
        /\ \A k \in DOMAIN record_cdm : ~IsSkippedValue(record_cdm[k])
        /\ \A k \in PossibleKeys : k \in DOMAIN record_cdm <=> Contributors(k) # {}
        /\ \A k \in DOMAIN record_cdm :
              k \in PossibleKeys /\
              \E i \in Contributors(k) :
                  /\ \A j \in Contributors(k) : j <= i
                  /\ record_cdm[k] = record[i].value
        /\ \A i \in 1..Len(record) :
              record[i].name \in DOMAIN field_mapping => record[i].name \notin inferred_names

\* two fields resolved to one key and the later one's value is in the CDM
LaterFieldWon ==
    /\ pc = "built"
    /\ \E k \in DOMAIN record_cdm : \E i, j \in Contributors(k) :
          /\ i < j
          /\ record[i].value # record[j].value
          /\ record_cdm[k] = record[j].value
          /\ record[j].name \in DOMAIN field_mapping

(* ================= removed regions and the classifier ================= *)

\* the widgets on pages of the document that the Region Filter removes
RemovedWidgets == {w \in Items : doc[w] # 0 /\ IsNoise(LastComponent(w.name))}

\* C27: in process_pdf_form a region the filter removes is in no batch and
\* its full id is no key of the Mapping, also when a response names its
\* short id; a page whose filtered list is empty has no classifier call.
RemovedNeverSent ==
    mode = "form" =>
        /\ \A b \in 1..Len(batches) : \A i \in 1..Len(batches[b]) :
              ~IsNoise(batches[b][i].field_id)
        /\ \A w \in RemovedWidgets : w.name \notin DOMAIN all_mappings
        /\ filtered_fields = <<>> => (outcomes = <<>> /\ batches = <<>>)

\* a page with a removed button was stored: a response named the button's
\* short id and another response mapped a field
ButtonAnsweredNotMapped ==
    /\ PageMerged
    /\ \E w \in RemovedWidgets : doc[w] = page_num /\ LastComponent(w.name) = foreign_id
    /\ \E o \in 1..Len(outcomes) :
          ~outcomes[o].raised /\ foreign_id \in DOMAIN outcomes[o].result
    /\ all_mappings # EmptyDict

(* ================== the counters of fill_pdf_with_values ================== *)

\* the field has no value in field_values, or a blank one
HasNoValue(f) ==
    f.key_text \notin DOMAIN filled_data \/ IsBlankValue(filled_data[f.key_text])

\* C28: each turn of the loop adds one to exactly one of filled, skipped and
\* failed, so their sum is the number of fields processed, and the number
\* of fields given when the loop has ended; a field with no value or a blank
\* one is counted as skipped and is not written.
CountersPartition ==
    /\ [](/\ filled_count + skipped_count + failed_count = render_idx
          /\ pc = "saved" => render_idx = Len(render_fields))
    /\ [][render_idx' # render_idx =>
            /\ render_idx' = render_idx + 1
            /\ <<filled_count', skipped_count', failed_count'>> \in
                  { <<filled_count + 1, skipped_count, failed_count>>,
                    <<filled_count, skipped_count + 1, failed_count>>,
                    <<filled_count, skipped_count, failed_count + 1>> }
            /\ HasNoValue(render_fields[render_idx']) =>
                  /\ skipped_count' = skipped_count + 1
                  /\ render_log'[render_idx'].status = "skipped"]_vars

\* three fields were processed and saved: one filled, one skipped for its
\* blank value, one failed
OneOfEachCounted ==
    /\ pc = "saved"
    /\ render_idx = 3
    /\ filled_count = 1
    /\ skipped_count = 1
    /\ failed_count = 1
    /\ \E i \in 1..3 :
          /\ render_fields[i].key_text \in DOMAIN filled_data
          /\ HasNoValue(render_fields[i])

(* ============ the statistics of process_static_pdf_with_cdm ============ *)

\* C30: the statistics process_static_pdf_with_cdm returns satisfy
\* 0 <= filled_fields <= mapped_fields <= total_fields and
\* skipped_secondary = total_fields - mapped_fields >= 0, whatever fields
\* were detected and whatever the classifier answered.
StatisticsOrdered ==
    (mode = "static_run" /\ pc = "returned" /\ run_result.t = "summary") =>
        /\ 0 <= run_result.fields_filled
        /\ run_result.fields_filled <= run_result.primary_mapped
        /\ run_result.primary_mapped <= run_result.total_fields
        /\ run_result.secondary_skipped =
               run_result.total_fields - run_result.primary_mapped
        /\ run_result.secondary_skipped >= 0

====
